---- MODULE Spec2Model ----
(***************************************************************************)
(* State-machine model of the VRPTWMS solver (routes with cached earliest  *)
(* and latest start times, Solomon-style construction, local search, the   *)
(* ACO / GRASP / TS / VNS drivers, the solution cache and the tabu list).   *)
(*                                                                         *)
(* Numbers.  The C code computes with doubles.  The model uses instances   *)
(* whose coordinates give integer Euclidean distances and whose service    *)
(* times are divisible by every worker count, so that every time, load and *)
(* distance the code computes is an integer and the model's arithmetic is  *)
(* exact.  Costs are counted in units of the default cost_distance          *)
(* (0.0001), so cost_truck = 10000 and cost_worker = 1000 units.           *)
(* Random draws (drand48, lrand48) and readings of the wall clock are      *)
(* inputs chosen with \E.                                                  *)
(***************************************************************************)
EXTENDS Integers, Sequences, FiniteSets, TLC

VARIABLES
  inst,        \* the problem instance (nodes, capacity, distances)
  cfg,         \* the configuration record
  pb,          \* mutable part of struct problem (incumbent sol, counters, ...)
  sol,         \* the driver's scratch / working solution
  loc,         \* the driver's local variables (best_cost, cost, i, hits, ...)
  cache,       \* Cache::m_cache of the cached drivers
  pc,          \* position of the running driver
  now,         \* last reading of the wall clock, time(NULL)
  hist         \* history (ghost) record used to state properties

vars == <<inst, cfg, pb, sol, loc, cache, pc, now, hist>>

(***************************************************************************)
(* Bounds of the model                                                     *)
(***************************************************************************)
MaxClock == 3          \* largest wall-clock reading
MaxBatches == 3        \* cap on driver rounds when only the runtime limits

(***************************************************************************)
(* Program constants                                                       *)
(***************************************************************************)
DEPOT == 0
EMPTY == 2
ONE_CUSTOMER == 3
REDUCE_TRUCKS == 0
REDUCE_WORKERS == 1
NON_IMPROVING == 0
IMPROVING == 1
UNSET == 0 - 1         \* the -1.0 written by get_nodes / clone_node
INFINITY == 100000000  \* stands for the C INFINITY; larger than any cost
DBL_MAX == 10000000    \* stands for DBL_MAX; larger than any distance
CostTruck == 10000     \* cost_truck = 1.0 in units of 0.0001
CostWorker == 1000     \* cost_worker = 0.1
CostDistance == 1      \* cost_distance = 0.0001
CostUnit == 10000      \* number of cost units in 1.0
MaxHits == 5           \* max_hits of the cached drivers

\* v handed to Op: the value is computed once and named by Op's parameter
With(v, Op(_)) == Op(v)

max(x, y) == IF x > y THEN x ELSE y
fmin(x, y) == IF x < y THEN x ELSE y

Range(s) == {s[i] : i \in DOMAIN s}

RECURSIVE SumSeq(_)
SumSeq(s) == IF s = <<>> THEN 0 ELSE Head(s) + SumSeq(Tail(s))

\* s without the elements at positions a..b
Cut(s, a, b) == SubSeq(s, 1, a - 1) \o SubSeq(s, b + 1, Len(s))

\* s with the sequence t inserted after position a
Splice(s, a, t) == SubSeq(s, 1, a) \o t \o SubSeq(s, a + 1, Len(s))

(***************************************************************************)
(* Instances (the content of a Solomon file) and get_problem               *)
(***************************************************************************)
\* Instance files.  Row i of each tuple is node i-1 (row 1 is the depot).
\* Coordinates are chosen so that all Euclidean distances are integers.
RawA == [name |-> "A", capacity |-> 6,
         x |-> <<0, 3, 0, 3>>, y |-> <<0, 0, 4, 4>>,
         demand |-> <<0, 3, 3, 3>>,
         est |-> <<0, 0, 0, 8>>, lst |-> <<60, 30, 30, 40>>,
         service_time |-> <<0, 12, 6, 6>>]
RawB == [name |-> "B", capacity |-> 9,
         x |-> <<0, 3, 0, 3>>, y |-> <<0, 0, 4, 4>>,
         demand |-> <<0, 3, 3, 3>>,
         est |-> <<0, 0, 5, 10>>, lst |-> <<50, 12, 20, 30>>,
         service_time |-> <<0, 6, 12, 6>>]
RawC == [name |-> "C", capacity |-> 6,
         x |-> <<0, 3, 0>>, y |-> <<0, 0, 4>>,
         demand |-> <<0, 3, 3>>,
         est |-> <<0, 0, 0>>, lst |-> <<40, 20, 20>>,
         service_time |-> <<0, 6, 6>>]
RawD == [name |-> "D", capacity |-> 5,
         x |-> <<0, 3, 6, 0 - 3, 0 - 6>>, y |-> <<0, 0, 0, 0, 0>>,
         demand |-> <<0, 3, 3, 3, 3>>,
         est |-> <<0, 0, 0, 0, 0>>, lst |-> <<60, 30, 30, 30, 30>>,
         service_time |-> <<0, 6, 6, 6, 6>>]

RawE == [name |-> "E", capacity |-> 6,
         x |-> <<0, 3>>, y |-> <<0, 4>>,
         demand |-> <<0, 3>>,
         est |-> <<0, 0>>, lst |-> <<40, 20>>,
         service_time |-> <<0, 6>>]

RawF == [name |-> "F", capacity |-> 6,
         x |-> <<0, 3, 0 - 3, 3, 0 - 3>>, y |-> <<0, 4, 4, 0 - 4, 0 - 4>>,
         demand |-> <<0, 3, 3, 3, 3>>,
         est |-> <<0, 0, 0, 0, 0>>, lst |-> <<100, 60, 60, 6, 6>>,
         service_time |-> <<0, 6, 6, 6, 6>>]

\* wide time windows: the start times follow from the travel and service
\* times, not from the windows
RawG == [name |-> "G", capacity |-> 6,
         x |-> <<0, 3, 0, 3>>, y |-> <<0, 0, 4, 4>>,
         demand |-> <<0, 3, 3, 3>>,
         est |-> <<0, 0, 0, 0>>, lst |-> <<60, 50, 50, 50>>,
         service_time |-> <<0, 12, 6, 6>>]

\* a tight window at customer 3: the route depot-1-3-depot needs two workers
RawH == [name |-> "H", capacity |-> 9,
         x |-> <<0, 3, 0, 3>>, y |-> <<0, 0, 4, 4>>,
         demand |-> <<0, 3, 3, 3>>,
         est |-> <<0, 0, 0, 0>>, lst |-> <<60, 30, 30, 13>>,
         service_time |-> <<0, 12, 6, 6>>]

\* four customers on a line, two per truck: 1 and 2 have to be reached at
\* once and lie on opposite sides, 4 cannot follow 2
RawI == [name |-> "I", capacity |-> 6,
         x |-> <<0, 6, 0 - 6, 8, 9>>, y |-> <<0, 0, 0, 0, 0>>,
         demand |-> <<0, 3, 3, 3, 3>>,
         est |-> <<0, 0, 0, 0, 0>>, lst |-> <<100, 6, 6, 60, 12>>,
         service_time |-> <<0, 0, 0, 0, 0>>]

\* four customers on a line, three per truck: 1 and 2 lie next to each
\* other and have to be reached early
RawJ == [name |-> "J", capacity |-> 9,
         x |-> <<0, 3, 4, 0 - 4, 5>>, y |-> <<0, 0, 0, 0, 0>>,
         demand |-> <<0, 3, 3, 3, 3>>,
         est |-> <<0, 0, 0, 0, 0>>, lst |-> <<100, 6, 6, 12, 12>>,
         service_time |-> <<0, 0, 0, 0, 0>>]

\* sqrt() of get_cost_matrix, exact on the instances above
Sqrt(v) == CHOOSE r \in 0..v : r * r = v

\* adapt_service_times: Reimann's adaptation, service_rate = 2 and
\* truck_velocity = 1 (the defaults)
ServiceRate == 2
adapt_service_times(raw, d, adapt) ==
  [i \in 0..(Len(raw.x) - 1) |->
     IF adapt /\ i >= 1
     THEN fmin(ServiceRate * raw.demand[i + 1],
               raw.lst[1] - max(raw.est[i + 1], d[0][i]) - d[i][0])
     ELSE raw.service_time[i + 1]]

\* get_cost_matrix: c_m[0] is the distance, c_m[w] adds service_time / w
get_cost_matrix(raw, max_workers, adapt) ==
  LET N == 0..(Len(raw.x) - 1)
      d == [i \in N |-> [j \in N |->
              IF i = j THEN 0
              ELSE Sqrt((raw.x[i + 1] - raw.x[j + 1]) * (raw.x[i + 1] - raw.x[j + 1])
                      + (raw.y[i + 1] - raw.y[j + 1]) * (raw.y[i + 1] - raw.y[j + 1]))]]
      st == adapt_service_times(raw, d, adapt)
  IN [w \in 0..max_workers |-> [i \in N |-> [j \in N |->
        IF w = 0 \/ i = j THEN d[i][j] ELSE d[i][j] + (st[i] \div w)]]]

\* get_problem: the immutable part of struct problem
get_problem(raw, c) ==
  [name |-> raw.name,
   num_nodes |-> Len(raw.x),
   capacity |-> raw.capacity,
   demand |-> [i \in 0..(Len(raw.x) - 1) |-> raw.demand[i + 1]],
   est |-> [i \in 0..(Len(raw.x) - 1) |-> raw.est[i + 1]],
   lst |-> [i \in 0..(Len(raw.x) - 1) |-> raw.lst[i + 1]],
   c_m |-> get_cost_matrix(raw, c.max_workers, c.adapt_service_times)]

\* c_m[w][i][j] of the running problem
c_m(w, i, j) == inst.c_m[w][i][j]

(***************************************************************************)
(* Nodes (node.c)                                                          *)
(***************************************************************************)
\* a node as read by get_nodes: the dynamic fields start at -1.0
Node(i) == [id |-> i, aest |-> UNSET, alst |-> UNSET, aest_cache |-> UNSET]

\* clone_node: copies aest / alst and resets the scratch caches
clone_node(n) == [n EXCEPT !.aest_cache = UNSET]

\* new_depot
new_depot == clone_node(Node(DEPOT))

\* sum_demands over a sequence of nodes
sum_demands(ns) == SumSeq([i \in 1..Len(ns) |-> inst.demand[ns[i].id]])

(***************************************************************************)
(* Routes (route.c, route.h).  A route's doubly linked node list is the    *)
(* sequence nodes: nodes[1] is the opening depot, nodes[Len] the tail.     *)
(***************************************************************************)
RECURSIVE ests_loop(_, _, _, _)
\* the loops of calc_ests: update positions i..last from their predecessors
ests_loop(nodes, i, last, w) ==
  IF i > last THEN nodes
  ELSE ests_loop([nodes EXCEPT ![i].aest =
                    max(inst.est[nodes[i].id],
                        nodes[i - 1].aest + c_m(w, nodes[i - 1].id, nodes[i].id))],
                 i + 1, last, w)

RECURSIVE ests_cache_loop(_, _, _, _)
ests_cache_loop(nodes, i, last, w) ==
  IF i > last THEN nodes
  ELSE ests_cache_loop([nodes EXCEPT ![i].aest_cache =
                    max(inst.est[nodes[i].id],
                        nodes[i - 1].aest_cache + c_m(w, nodes[i - 1].id, nodes[i].id))],
                 i + 1, last, w)

\* calc_ests(route, n, workers) with n the node at position pos.  With the
\* route's own worker count the aest of pos .. tail-1 are set; with another
\* count the aest_cache of pos .. tail are filled.
calc_ests(r, pos, workers) ==
  IF r.workers = workers
  THEN LET n0 == IF pos = 1
                 THEN [r.nodes EXCEPT ![1].aest = inst.est[r.nodes[1].id]]
                 ELSE r.nodes
       IN [r EXCEPT !.nodes = ests_loop(n0, IF pos = 1 THEN 2 ELSE pos,
                                        Len(r.nodes) - 1, workers)]
  ELSE LET n0 == IF pos = 1
                 THEN [r.nodes EXCEPT ![1].aest_cache = inst.est[r.nodes[1].id]]
                 ELSE r.nodes
       IN [r EXCEPT !.nodes = ests_cache_loop(n0, IF pos = 1 THEN 2 ELSE pos,
                                              Len(r.nodes), workers)]

RECURSIVE lsts_loop(_, _, _)
lsts_loop(nodes, i, w) ==
  IF i <= 1 THEN nodes
  ELSE lsts_loop([nodes EXCEPT ![i].alst =
                    fmin(inst.lst[nodes[i].id],
                         nodes[i + 1].alst - c_m(w, nodes[i].id, nodes[i + 1].id))],
                 i - 1, w)

\* calc_lsts(route, n, workers): alst of pos down to the first customer
calc_lsts(r, pos, workers) ==
  LET n0 == IF pos = Len(r.nodes)
            THEN [r.nodes EXCEPT ![pos].alst = inst.lst[r.nodes[pos].id]]
            ELSE r.nodes
  IN [r EXCEPT !.nodes = lsts_loop(n0, IF pos = Len(r.nodes) THEN pos - 1 ELSE pos,
                                   workers)]

\* add_nodes_noupdate: link the nodes ns after position after
add_nodes_noupdate(r, ns, after) ==
  [r EXCEPT !.load = r.load + sum_demands(ns),
            !.len = r.len + Len(ns),
            !.nodes = Splice(r.nodes, after, ns)]

\* add_nodes: link, then recompute ests from first and lsts from last
add_nodes(r, ns, after) ==
  calc_lsts(calc_ests(add_nodes_noupdate(r, ns, after), after + 1, r.workers),
            after + Len(ns), r.workers)

\* the mutated unlinking: the load of the route is left as it was
remove_nodes_noupdate_keeping_load(r, first, last) ==
  [r EXCEPT !.len = r.len - (last - first + 1),
            !.nodes = Cut(r.nodes, first, last)]

\* remove_nodes_noupdate: unlink positions first..last
remove_nodes_noupdate(r, first, last) ==
  [r EXCEPT !.load = r.load - sum_demands(SubSeq(r.nodes, first, last)),
            !.len = r.len - (last - first + 1),
            !.nodes = Cut(r.nodes, first, last)]

\* remove_nodes: unlink, recompute ests from prev->next and lsts from prev
remove_nodes(r, first, last) ==
  calc_lsts(calc_ests(remove_nodes_noupdate(r, first, last), first, r.workers),
            first - 1, r.workers)

\* the mutated length: the leg back to the depot is left out
calc_length_open(r) ==
  SumSeq([i \in 1..(Len(r.nodes) - 2) |-> c_m(0, r.nodes[i].id, r.nodes[i + 1].id)])

\* calc_length: total distance of the route
calc_length(r) ==
  SumSeq([i \in 1..(Len(r.nodes) - 1) |-> c_m(0, r.nodes[i].id, r.nodes[i + 1].id)])

\* clone_route
clone_route(r) == [r EXCEPT !.nodes = [i \in 1..Len(r.nodes) |-> clone_node(r.nodes[i])]]

RECURSIVE feasible_loop(_, _, _)
\* the loop of is_feasible: est recomputed from the opening depot
feasible_loop(r, i, est) ==
  IF i > Len(r.nodes) THEN TRUE
  ELSE LET e == max(inst.est[r.nodes[i].id],
                    est + c_m(r.workers, r.nodes[i - 1].id, r.nodes[i].id))
       IN IF e > inst.lst[r.nodes[i].id] THEN FALSE
          ELSE feasible_loop(r, i + 1, e)

\* is_feasible: from-scratch check of time windows and capacity
is_feasible(r) ==
  /\ feasible_loop(r, 2, inst.est[r.nodes[1].id])
  /\ ~ (sum_demands(SubSeq(r.nodes, 2, Len(r.nodes))) > inst.capacity)

\* the mutated is_feasible_with: the cache is copied into aest at once
is_feasible_with_committing(r, workers) ==
  IF r.workers = workers THEN [ok |-> TRUE, r |-> r]
  ELSE With(calc_ests(r, 1, workers), LAMBDA r1 :
         [ok |-> \A i \in 2..Len(r1.nodes) :
                    ~ (r1.nodes[i].aest_cache > inst.lst[r1.nodes[i].id]),
          r |-> [r1 EXCEPT !.nodes = [p \in DOMAIN r1.nodes |->
                     [r1.nodes[p] EXCEPT !.aest = r1.nodes[p].aest_cache]]]])

\* is_feasible_with(route, workers): result and the route with its
\* aest_cache fields filled
is_feasible_with(r, workers) ==
  IF r.workers = workers THEN [ok |-> TRUE, r |-> r]
  ELSE With(calc_ests(r, 1, workers), LAMBDA r1 :
         [ok |-> \A i \in 2..Len(r1.nodes) :
                    ~ (r1.nodes[i].aest_cache > inst.lst[r1.nodes[i].id]),
          r |-> r1])

RECURSIVE reduce_loop(_, _, _)
reduce_loop(r, workers, reduced) ==
  IF workers < 1 THEN [r |-> r, reduced |-> reduced]
  ELSE With(is_feasible_with(r, workers), LAMBDA f :
         IF f.ok
         THEN reduce_loop([f.r EXCEPT !.workers = workers,
                                      !.nodes = [i \in 1..Len(f.r.nodes) |->
                                         [f.r.nodes[i] EXCEPT
                                            !.aest = f.r.nodes[i].aest_cache]]],
                          workers - 1, TRUE)
         ELSE [r |-> f.r, reduced |-> reduced])

\* the mutated reduction: one worker at most is dropped per call
reduce_service_workers_once(r) ==
  IF r.workers - 1 < 1 THEN [r |-> r, reduced |-> FALSE]
  ELSE With(is_feasible_with(r, r.workers - 1), LAMBDA f :
         IF f.ok
         THEN With([f.r EXCEPT !.workers = r.workers - 1,
                               !.nodes = [i \in 1..Len(f.r.nodes) |->
                                  [f.r.nodes[i] EXCEPT !.aest = f.r.nodes[i].aest_cache]]],
                   LAMBDA less :
                     [r |-> calc_lsts(less, Len(less.nodes), less.workers),
                      reduced |-> TRUE])
         ELSE [r |-> f.r, reduced |-> FALSE])

\* reduce_service_workers: drop workers while the route stays feasible
reduce_service_workers(r) ==
  With(reduce_loop(r, r.workers - 1, FALSE), LAMBDA res :
    IF res.reduced
    THEN [r |-> calc_lsts(res.r, Len(res.r.nodes), res.r.workers), reduced |-> TRUE]
    ELSE res)

\* the mutated test: the two arrivals are compared with the window of n
\* only, not with each other
can_insert_one_window_only(r, n, pred) ==
  LET earliest_arrival == r.nodes[pred].aest + c_m(r.workers, r.nodes[pred].id, n.id)
      latest_arrival == r.nodes[pred + 1].alst
                          - c_m(r.workers, n.id, r.nodes[pred + 1].id)
  IN /\ earliest_arrival <= inst.lst[n.id]
     /\ latest_arrival >= inst.est[n.id]

\* can_insert_one(route, n, pred): time-window test for one node
can_insert_one(r, n, pred) ==
  LET earliest_arrival == r.nodes[pred].aest + c_m(r.workers, r.nodes[pred].id, n.id)
      latest_arrival == r.nodes[pred + 1].alst
                          - c_m(r.workers, n.id, r.nodes[pred + 1].id)
  IN /\ earliest_arrival <= inst.lst[n.id]
     /\ latest_arrival >= inst.est[n.id]
     /\ earliest_arrival <= latest_arrival

\* can_insert(target, first, last, after): simulate the run ns forward with
\* aest_cache.  Returns the verdict and the run with the caches it wrote.
RECURSIVE can_insert_loop(_, _, _, _)
can_insert_loop(r, ns, i, after) ==
  IF i > Len(ns)
  THEN [ok |-> (ns[Len(ns)].aest_cache
                  + c_m(r.workers, ns[Len(ns)].id, r.nodes[after + 1].id))
                 <= r.nodes[after + 1].alst,
        ns |-> ns]
  ELSE LET v == IF i = 1
                THEN max(r.nodes[after].aest + c_m(r.workers, r.nodes[after].id, ns[1].id),
                         inst.est[ns[1].id])
                ELSE max(ns[i - 1].aest_cache + c_m(r.workers, ns[i - 1].id, ns[i].id),
                         inst.est[ns[i].id])
           ns1 == [ns EXCEPT ![i].aest_cache = v]
       IN IF v > inst.lst[ns[i].id] THEN [ok |-> FALSE, ns |-> ns1]
          ELSE can_insert_loop(r, ns1, i + 1, after)

can_insert(r, ns, after) == can_insert_loop(r, ns, 1, after)

(***************************************************************************)
(* Solutions (solution.c)                                                  *)
(***************************************************************************)
\* new_solution: no routes, every customer in the unrouted list.
\* cost_cache is left uninitialised by the code; it is written by calc_costs
\* before every read, so the model starts it at 0.
new_solution ==
  [routes |-> <<>>, trucks |-> 0,
   unrouted |-> [i \in 1..(inst.num_nodes - 1) |-> clone_node(Node(i))],
   num_unrouted |-> inst.num_nodes - 1,
   time |-> 0, saturation_time |-> 0,
   workers_cache |-> 0, dist_cache |-> 0, cost_cache |-> 0]

\* calc_cost (solution.h)
calc_cost(trucks, workers, distance) ==
  distance * CostDistance + workers * CostWorker + trucks * CostTruck

\* calc_workers, calc_dist
calc_workers(s) == SumSeq([i \in 1..s.trucks |-> s.routes[i].workers])
calc_dist(s) == SumSeq([i \in 1..s.trucks |-> calc_length(s.routes[i])])

\* calc_costs: recompute and store the three caches
calc_costs(s) ==
  [s EXCEPT !.workers_cache = calc_workers(s),
            !.dist_cache = calc_dist(s),
            !.cost_cache = calc_cost(s.trucks, calc_workers(s), calc_dist(s))]

\* clone_solution
clone_solution(s) ==
  [s EXCEPT !.routes = [i \in 1..s.trucks |-> clone_route(s.routes[i])],
            !.unrouted = [i \in 1..Len(s.unrouted) |-> clone_node(s.unrouted[i])]]

\* get_route_index: index (1-based here) of the first route with this id
get_route_index(s, route_id) ==
  CHOOSE i \in 1..s.trucks :
    /\ s.routes[i].id = route_id
    /\ \A j \in 1..(i - 1) : s.routes[j].id # route_id

\* remove_route: only for empty routes (exit(EXIT_FAILURE) otherwise)
remove_route(s, idx) ==
  [s EXCEPT !.routes = Cut(s.routes, idx, idx), !.trucks = s.trucks - 1]

\* the mutated unlinking: the node stays in the unrouted list
remove_unrouted_counting_only(s, k) ==
  [s EXCEPT !.num_unrouted = s.num_unrouted - 1]

\* remove_unrouted: unlink the node at position k of the unrouted list
remove_unrouted(s, k) ==
  [s EXCEPT !.unrouted = Cut(s.unrouted, k, k),
            !.num_unrouted = s.num_unrouted - 1]

RECURSIVE reset_loop(_, _, _)
\* the loop of reset_solution: each route's customers are prepended
reset_loop(routes, i, unrouted) ==
  IF i > Len(routes) THEN unrouted
  ELSE reset_loop(routes, i + 1,
                  SubSeq(routes[i].nodes, 2, Len(routes[i].nodes) - 1) \o unrouted)

\* reset_solution
reset_solution(s) ==
  [s EXCEPT !.unrouted = reset_loop(s.routes, 1, s.unrouted),
            !.routes = <<>>,
            !.num_unrouted = inst.num_nodes - 1,
            !.trucks = 0, !.workers_cache = 0, !.dist_cache = 0,
            !.time = 0, !.saturation_time = 0]

\* the mutated new_route: the route is numbered after trucks is incremented
new_route_numbered_late(s, seed, workers) ==
  [s EXCEPT !.routes =
     Append(s.routes,
            calc_lsts(calc_ests([id |-> s.trucks + 1,
                                 depot_id |-> inst.num_nodes + s.trucks + 1,
                                 nodes |-> <<new_depot, seed, new_depot>>,
                                 len |-> ONE_CUSTOMER, load |-> inst.demand[seed.id],
                                 workers |-> workers],
                                1, workers),
                      3, workers)),
            !.trucks = s.trucks + 1]

\* new_route(sol, seed, workers): appended to the solution
new_route(s, seed, workers) ==
  [s EXCEPT !.routes =
     Append(s.routes,
            calc_lsts(calc_ests([id |-> s.trucks, depot_id |-> inst.num_nodes + s.trucks,
                                 nodes |-> <<new_depot, seed, new_depot>>,
                                 len |-> ONE_CUSTOMER, load |-> inst.demand[seed.id],
                                 workers |-> workers],
                                1, workers),
                      3, workers)),
            !.trucks = s.trucks + 1]

(***************************************************************************)
(* Pheromone.  A value v of the C matrix is stored as the integer          *)
(* v * PScale.  The model runs with rho = 1/2, so every value the code can *)
(* produce in at most MaxBatches + 2 updates is a multiple of 1 / PScale   *)
(* and the stored integers are exact.  Real-valued costs and trails are    *)
(* fractions [n, d] compared by cross-multiplication; the rounding of the  *)
(* C doubles is not modelled.                                              *)
(***************************************************************************)
PScale == 2 ^ (MaxBatches + 2)
InitialPheromone == PScale       \* initial_pheromone = 1.0
Lambda == 2
Mu == 1

\* a real number n / d with d > 0; d = 0 stands for INFINITY
Frac(n, d) == [n |-> n, d |-> d]
frac_lt(a, b) ==
  IF a.d = 0 THEN FALSE
  ELSE IF b.d = 0 THEN TRUE
  ELSE a.n * b.d < b.n * a.d

\* calc_trail: the depot is replaced by the route's virtual depot
calc_trail(p_m, depot_id, after_id, succ_id, node_id) ==
  LET a == IF after_id = DEPOT THEN depot_id ELSE after_id
      s == IF succ_id = DEPOT THEN depot_id ELSE succ_id
  IN Frac(p_m[a][node_id] + p_m[node_id][s], 2 * p_m[a][s])

\* the outcomes of a roulette wheel over the weights w (a sequence): with
\* threshold = u * sum for u in [0, 1) the scan returns the first index
\* whose weight is crossed, which is any index of positive weight, and the
\* first index when all weights are zero
Roulette(w) ==
  IF \A i \in DOMAIN w : w[i] = 0 THEN {i \in DOMAIN w : i = 1}
  ELSE {i \in DOMAIN w : w[i] > 0}

(***************************************************************************)
(* Insertions.  An insertion names its target route by index, its node by  *)
(* id and the position it is inserted after.                               *)
(***************************************************************************)
\* an Insertion with cost = INFINITY and no target
no_insertion ==
  [target |-> 0, node |-> 0, after |-> 0, cost |-> Frac(1, 0),
   attractiveness |-> UNSET]

\* Solomon's I1 cost of node n after position after (alpha = 1, so the
\* time term is skipped), minus lambda * d[0][n]
solomon_cost(r, n, after) ==
  c_m(0, r.nodes[after].id, n.id) + c_m(0, n.id, r.nodes[after + 1].id)
    - Mu * c_m(0, r.nodes[after].id, r.nodes[after + 1].id)
    - Lambda * c_m(0, DEPOT, n.id)

RECURSIVE best_insertion_loop(_, _, _, _, _, _)
\* the while loop of calc_best_insertion (aco = FALSE) and of
\* calc_aco_insertion (aco = TRUE, the cost weighted by the trail)
best_insertion_loop(r, ridx, n, after, ins, aco) ==
  IF after = Len(r.nodes) THEN ins
  ELSE IF ~ can_insert_one(r, n, after)
  THEN best_insertion_loop(r, ridx, n, after + 1, ins, aco)
  ELSE With(solomon_cost(r, n, after), LAMBDA c :
       With(IF ~ aco THEN Frac(c, 1)
            ELSE With(calc_trail(pb.pheromone, r.depot_id, r.nodes[after].id,
                                 r.nodes[after + 1].id, n.id),
                      LAMBDA t : IF c >= 0 THEN Frac(c * t.d, t.n)
                                 ELSE Frac(c * t.n, t.d)),
            LAMBDA cost :
              best_insertion_loop(r, ridx, n, after + 1,
                IF frac_lt(cost, ins.cost)
                THEN [ins EXCEPT !.target = ridx, !.node = n.id,
                                 !.after = after, !.cost = cost]
                ELSE ins, aco)))

\* calc_best_insertion(route, node, ins): ins updated when cheaper
calc_best_insertion(r, ridx, n, ins) ==
  IF inst.capacity < r.load + inst.demand[n.id] THEN ins
  ELSE best_insertion_loop(r, ridx, n, 1, ins, FALSE)

\* calc_aco_insertion(route, node, ins)
calc_aco_insertion(r, ridx, n, ins) ==
  IF inst.capacity < r.load + inst.demand[n.id] THEN ins
  ELSE best_insertion_loop(r, ridx, n, 1, ins, TRUE)

\* position of the node with this id in the unrouted list
unrouted_pos(s, id) == CHOOSE k \in 1..Len(s.unrouted) : s.unrouted[k].id = id

\* remove_unrouted(sol, ins.node); add_nodes(ins.target, node, node, after)
insert(s, ins) ==
  LET k == unrouted_pos(s, ins.node)
      s1 == remove_unrouted(s, k)
  IN [s1 EXCEPT !.routes[ins.target] =
        add_nodes(s.routes[ins.target], <<s.unrouted[k]>>, ins.after)]

\* get_best_seed: the unrouted node furthest from the depot (first on ties)
get_best_seed(s) ==
  CHOOSE k \in 1..Len(s.unrouted) :
    /\ \A j \in 1..Len(s.unrouted) :
         c_m(0, DEPOT, s.unrouted[j].id) <= c_m(0, DEPOT, s.unrouted[k].id)
    /\ \A j \in 1..(k - 1) :
         c_m(0, DEPOT, s.unrouted[j].id) < c_m(0, DEPOT, s.unrouted[k].id)

\* get_seed: roulette over d[0][n] * (p[depot'][n] + p[n][depot']); the
\* set of positions of the unrouted list it can return
get_seed(s) ==
  Roulette([k \in 1..Len(s.unrouted) |->
     c_m(0, DEPOT, s.unrouted[k].id)
       * (pb.pheromone[inst.num_nodes + s.trucks][s.unrouted[k].id]
          + pb.pheromone[s.unrouted[k].id][inst.num_nodes + s.trucks])])

RECURSIVE solomon_fill_loop(_, _, _)
\* deterministic solve_solomon: one ins shared by all unrouted nodes
solomon_fill_loop(s, k, ins) ==
  IF k > Len(s.unrouted) THEN ins
  ELSE solomon_fill_loop(s, k + 1,
         calc_best_insertion(s.routes[s.trucks], s.trucks, s.unrouted[k], ins))

\* stochastic solve_solomon / solve_solomon_aco: insertions[i] per node
solomon_insertions(s, aco) ==
  [k \in 1..Len(s.unrouted) |->
     IF aco
     THEN calc_aco_insertion(s.routes[s.trucks], s.trucks, s.unrouted[k], no_insertion)
     ELSE calc_best_insertion(s.routes[s.trucks], s.trucks, s.unrouted[k], no_insertion)]

\* aco_pick_insertion: weights 1 / (cost - min_cost + 1), 0 for INFINITY
aco_pick_insertion(insertions) ==
  Roulette([k \in DOMAIN insertions |-> IF insertions[k].cost.d = 0 THEN 0 ELSE 1])

(***************************************************************************)
(* GRASP: restricted candidate list (route.c)                              *)
(***************************************************************************)
LONG_MAX == 2147483647     \* stands for LONG_MAX: no limit on the list
MIN_COST_DEN == 1000       \* MIN_COST = 0.001 = 1 / MIN_COST_DEN

\* GRASP attractiveness values are the naturals and MIN_DELTA, which lies
\* strictly between 0 and 1: v >= 0 is stored as 2 v and MIN_DELTA as 1,
\* which keeps the order and the sign of every value
Attr(v) == IF v < 0 THEN 1 ELSE 2 * v

RECURSIVE grasp_insertion_loop(_, _, _, _, _)
\* the while loop of get_best_insertion
grasp_insertion_loop(r, ridx, n, after, ins) ==
  IF after = Len(r.nodes) THEN ins
  ELSE IF ~ can_insert_one(r, n, after)
  THEN grasp_insertion_loop(r, ridx, n, after + 1, ins)
  ELSE LET cost == c_m(0, r.nodes[after].id, n.id)
                     + c_m(0, n.id, r.nodes[after + 1].id)
                     - Mu * c_m(0, r.nodes[after].id, r.nodes[after + 1].id)
           attract == Attr(Lambda * c_m(0, DEPOT, n.id) - cost)
       IN grasp_insertion_loop(r, ridx, n, after + 1,
            IF attract > ins.attractiveness
            THEN [target |-> ridx, node |-> n.id, after |-> after,
                  cost |-> Frac(cost, 1), attractiveness |-> attract]
            ELSE ins)

\* get_best_insertion(r, n): no_insertion stands for the NULL result
get_best_insertion(r, ridx, n) ==
  IF inst.capacity < r.load + inst.demand[n.id] THEN no_insertion
  ELSE grasp_insertion_loop(r, ridx, n, 1, no_insertion)

\* init_insertion_list
init_insertion_list(max_size) ==
  [list |-> <<>>, max_size |-> IF max_size = 0 THEN LONG_MAX ELSE max_size]

RECURSIVE scan_back(_, _, _)
\* temp = temp->prev while temp is less attractive than ins
scan_back(list, temp, ins) ==
  IF list[temp].attractiveness < ins.attractiveness
  THEN scan_back(list, temp - 1, ins)
  ELSE temp

\* the mutated update_insertion_list: a full list keeps its tail
update_insertion_list_keeping_tail(il, ins) ==
  LET l == il.list
      size == Len(l)
  IN IF size = 0 THEN [il EXCEPT !.list = <<ins>>]
     ELSE IF il.max_size = 1
     THEN IF l[1].attractiveness > ins.attractiveness THEN il
          ELSE [il EXCEPT !.list = <<ins>>]
     ELSE IF size < il.max_size
     THEN IF l[1].attractiveness < ins.attractiveness
          THEN [il EXCEPT !.list = <<ins>> \o l]
          ELSE [il EXCEPT !.list = Splice(l, scan_back(l, size, ins), <<ins>>)]
     ELSE IF l[size].attractiveness > ins.attractiveness THEN il
     ELSE IF l[1].attractiveness < ins.attractiveness
     THEN [il EXCEPT !.list = <<ins>> \o l]
     ELSE [il EXCEPT !.list =
             Splice(l, scan_back(l, size - 1, ins), <<ins>>)]

\* update_insertion_list(il, ins): head (position 1) is the most attractive
update_insertion_list(il, ins) ==
  LET l == il.list
      size == Len(l)
  IN IF size = 0 THEN [il EXCEPT !.list = <<ins>>]
     ELSE IF il.max_size = 1
     THEN IF l[1].attractiveness > ins.attractiveness THEN il
          ELSE [il EXCEPT !.list = <<ins>>]
     ELSE IF size < il.max_size
     THEN IF l[1].attractiveness < ins.attractiveness
          THEN [il EXCEPT !.list = <<ins>> \o l]
          ELSE [il EXCEPT !.list = Splice(l, scan_back(l, size, ins), <<ins>>)]
     ELSE IF l[size].attractiveness > ins.attractiveness THEN il
     ELSE IF l[1].attractiveness < ins.attractiveness
     THEN [il EXCEPT !.list = SubSeq(<<ins>> \o l, 1, size)]
     ELSE [il EXCEPT !.list =
             SubSeq(Splice(l, scan_back(l, size - 1, ins), <<ins>>), 1, size)]

RECURSIVE grasp_rcl_loop(_, _, _)
\* grasp_solve_solomon: offer each unrouted node's best insertion to the list
grasp_rcl_loop(s, k, il) ==
  IF k > Len(s.unrouted) THEN il
  ELSE LET ins == get_best_insertion(s.routes[s.trucks], s.trucks, s.unrouted[k])
       IN grasp_rcl_loop(s, k + 1,
            IF ins.target = 0 THEN il ELSE update_insertion_list(il, ins))

\* pick_insertion(il, use_weights): the positions of the list it can return
pick_insertion(list, use_weights) ==
  IF use_weights
  THEN Roulette([k \in 1..Len(list) |-> list[k].attractiveness])
  ELSE 1..Len(list)

(***************************************************************************)
(* Parallel construction (aco.c).  The linked list of insertions is kept   *)
(* as the set of its elements: pick_insertion can return any element since *)
(* every weight trail / cost is positive.                                  *)
(***************************************************************************)
RECURSIVE calc_next_insertion(_, _, _, _)
\* calc_next_insertion(route, n, after): the first feasible position at or
\* behind after; no_insertion stands for NULL
calc_next_insertion(r, ridx, n, after) ==
  IF inst.capacity < r.load + inst.demand[n.id] THEN no_insertion
  ELSE IF ~ can_insert_one(r, n, after)
  THEN IF after + 1 = Len(r.nodes) THEN no_insertion
       ELSE calc_next_insertion(r, ridx, n, after + 1)
  ELSE LET cost == c_m(0, r.nodes[after].id, n.id)
                     + c_m(0, n.id, r.nodes[after + 1].id)
                     - Mu * c_m(0, r.nodes[after].id, r.nodes[after + 1].id)
           t == calc_trail(pb.pheromone, r.depot_id, r.nodes[after].id,
                           r.nodes[after + 1].id, n.id)
       IN [target |-> ridx, node |-> n.id, after |-> after,
           cost |-> Frac(0 - 1, 1),
           attractiveness |-> IF cost * MIN_COST_DEN > 1
                              THEN Frac(t.n, t.d * cost)
                              ELSE Frac(t.n * MIN_COST_DEN, t.d)]

RECURSIVE prepend_loop(_, _, _, _, _)
prepend_loop(ins, r, ridx, n, after) ==
  IF after = Len(r.nodes) THEN ins
  ELSE LET head == calc_next_insertion(r, ridx, n, after)
       IN IF head.target = 0 THEN ins
          ELSE prepend_loop(ins \cup {head}, r, ridx, n, head.after + 1)

\* prepend_insertions(ins, r, n): every feasible position of n on r
prepend_insertions(ins, r, ridx, n) == prepend_loop(ins, r, ridx, n, 1)

RECURSIVE prepend_all(_, _, _, _)
\* for each unrouted node: prepend_insertions onto route ridx
prepend_all(ins, s, ridx, k) ==
  IF k > Len(s.unrouted) THEN ins
  ELSE prepend_all(prepend_insertions(ins, s.routes[ridx], ridx, s.unrouted[k]),
                   s, ridx, k + 1)

RECURSIVE init_parallel_insertions_loop(_, _, _)
init_parallel_insertions_loop(ins, s, i) ==
  IF i > s.trucks THEN ins
  ELSE init_parallel_insertions_loop(prepend_all(ins, s, i, 1), s, i + 1)

\* init_parallel_insertions: all feasible insertions of all unrouted nodes
init_parallel_insertions(s) == init_parallel_insertions_loop({}, s, 1)

\* remove_invalid_insertions(old, ins): drop those onto the updated route
\* and those of the inserted node
remove_invalid_insertions(old, ins) ==
  {o \in old : ~ (o.target = ins.target \/ o.node = ins.node)}

\* update_insertions(old, ins, unrouted), s the solution after the insertion
update_insertions(old, ins, s) ==
  prepend_all(remove_invalid_insertions(old, ins), s, ins.target, 1)

(***************************************************************************)
(* Tabu list (tabu_search.c).  nodes_routes[node id][route id].            *)
(***************************************************************************)
new_tabulist(c, num_nodes) ==
  [active |-> c.metaheuristic = "ts",
   iteration |-> 0,
   nodes_routes_tabutime |-> c.tabutime,
   nodes_routes |-> [k \in 0..(num_nodes - 1) |-> [r \in 0..(num_nodes - 2) |-> 0]]]

\* is_move_tabu(tl, m): some node of the run first..last is tabu on the target
is_move_tabu(tl, m, s) ==
  /\ tl.active
  /\ \E p \in m.first..m.last :
       tl.nodes_routes[s.routes[m.source].nodes[p].id][s.routes[m.target].id]
         > tl.iteration

\* the mutated update: the entry is computed from the counter before its
\* increment
update_tabulist_move_stale(tl, m, s) ==
  IF ~ tl.active THEN tl
  ELSE LET ids == {s.routes[m.source].nodes[p].id : p \in m.first..m.last}
           src == s.routes[m.source].id
       IN [tl EXCEPT !.iteration = tl.iteration + 1,
                     !.nodes_routes = [k \in DOMAIN tl.nodes_routes |->
                        IF k \in ids
                        THEN [tl.nodes_routes[k] EXCEPT ![src] =
                                tl.iteration + tl.nodes_routes_tabutime]
                        ELSE tl.nodes_routes[k]]]

\* update_tabulist_move(tl, m): the counter is incremented first
update_tabulist_move(tl, m, s) ==
  IF ~ tl.active THEN tl
  ELSE LET ids == {s.routes[m.source].nodes[p].id : p \in m.first..m.last}
           src == s.routes[m.source].id
       IN [tl EXCEPT !.iteration = tl.iteration + 1,
                     !.nodes_routes = [k \in DOMAIN tl.nodes_routes |->
                        IF k \in ids
                        THEN [tl.nodes_routes[k] EXCEPT ![src] =
                                tl.iteration + 1 + tl.nodes_routes_tabutime]
                        ELSE tl.nodes_routes[k]]]

(***************************************************************************)
(* Local search (local_search.c).  Routes are named by their index in the  *)
(* solution and nodes by their position in the route.  The operators work  *)
(* on a context x = [s, tl, log]: the solution, the tabu list perform_move  *)
(* updates, and a history of the steps applied (kind, the solution's        *)
(* trucks, workers and distance before and after the step, and the         *)
(* solution the step left).                                                *)
(***************************************************************************)
measure(s) == <<s.trucks, calc_workers(s), calc_dist(s)>>

ls_context(s, tl) == [s |-> s, tl |-> tl, log |-> <<>>]

\* the history entry of a step that turned x.s into s1
logged(x, op, s1) ==
  [x EXCEPT !.s = s1,
            !.log = Append(x.log, [op |-> op, pre |-> measure(x.s),
                                   post |-> measure(s1), from |-> x.s, s |-> s1])]

\* init_move(m, improving)
init_move(improving) ==
  [source |-> 0, target |-> 0, first |-> 0, last |-> 0, after |-> 0,
   delta_trucks |-> 0, delta_workers |-> 0,
   delta_dist |-> IF improving # 0 THEN 0 ELSE 0 - DBL_MAX,
   improving |-> improving]

\* calc_delta_dist_move(d, first, last, after)
calc_delta_dist_move(source, first, last, target, after) ==
  LET sn == source.nodes
      tn == target.nodes
  IN c_m(0, sn[first - 1].id, sn[first].id) + c_m(0, sn[last].id, sn[last + 1].id)
       - c_m(0, sn[first - 1].id, sn[last + 1].id)
       + c_m(0, tn[after].id, tn[after + 1].id)
       - c_m(0, tn[after].id, sn[first].id) - c_m(0, sn[last].id, tn[after + 1].id)

\* delta_is_higher(m, d_trucks, d_workers, d_dist).  Distances are integers,
\* so d_dist - MIN_DELTA > delta_dist is d_dist > delta_dist.
delta_is_higher(m, d_trucks, d_workers, d_dist) ==
  IF d_trucks # 0 /\ m.delta_trucks = 0 THEN TRUE
  ELSE IF d_trucks = m.delta_trucks
  THEN IF d_workers > m.delta_workers THEN TRUE
       ELSE d_workers = m.delta_workers /\ d_dist > m.delta_dist
  ELSE FALSE

RECURSIVE reduces_loop(_, _, _, _)
\* the while loop of move_reduces_workers
reduces_loop(r, min_reduction, max_reduction, reduction) ==
  IF min_reduction <= max_reduction
  THEN With(is_feasible_with(r, r.workers - min_reduction), LAMBDA f :
         IF f.ok
         THEN reduces_loop(f.r, min_reduction + 1, max_reduction, min_reduction)
         ELSE [reduction |-> reduction, r |-> f.r])
  ELSE [reduction |-> reduction, r |-> r]

\* the mutated test: the driver may be removed with the other workers
move_reduces_workers_to_none(source, first, last, min_reduction) ==
  With(reduces_loop([source EXCEPT !.nodes = Cut(source.nodes, first, last)],
                    IF min_reduction = 0 THEN 1 ELSE min_reduction,
                    source.workers, 0),
       LAMBDA res :
         [reduction |-> res.reduction,
          r |-> [res.r EXCEPT !.nodes = Splice(res.r.nodes, first - 1,
                                               SubSeq(source.nodes, first, last))]])

\* move_reduces_workers(source, first, last, min_reduction): the run is
\* unlinked for the test and linked again; r carries the aest_cache written
move_reduces_workers(source, first, last, min_reduction) ==
  With(reduces_loop([source EXCEPT !.nodes = Cut(source.nodes, first, last)],
                    IF min_reduction = 0 THEN 1 ELSE min_reduction,
                    source.workers - 1, 0),
       LAMBDA res :
         [reduction |-> res.reduction,
          r |-> [res.r EXCEPT !.nodes = Splice(res.r.nodes, first - 1,
                                               SubSeq(source.nodes, first, last))]])

RECURSIVE update_move_after(_, _, _, _, _, _)
\* the inner loop of update_move over the positions of the target.  u holds
\* the move m, the solution s, the locals delta_trucks / delta_workers, the
\* value ret to return and done (returned from inside the loop).
update_move_after(u, src, tgt, first, last, after) ==
  IF after = Len(u.s.routes[tgt].nodes) THEN u
  ELSE With(u.s.routes[src], LAMBDA source :
       With(calc_delta_dist_move(source, first, last, u.s.routes[tgt], after),
            LAMBDA delta_dist :
       IF ~ delta_is_higher(u.m, u.delta_trucks, u.delta_workers, delta_dist)
       THEN update_move_after(u, src, tgt, first, last, after + 1)
       ELSE
       With(can_insert(u.s.routes[tgt], SubSeq(source.nodes, first, last), after),
            LAMBDA ci :
       With([u EXCEPT !.s.routes[src].nodes =
               SubSeq(source.nodes, 1, first - 1) \o ci.ns
                 \o SubSeq(source.nodes, last + 1, Len(source.nodes))],
            LAMBDA u1 :
       With([source |-> src, target |-> tgt, first |-> first,
             last |-> last, after |-> after,
             delta_dist |-> delta_dist,
             delta_trucks |-> u.delta_trucks,
             delta_workers |-> u.delta_workers,
             improving |-> u.m.improving],
            LAMBDA candidate :
         IF ~ ci.ok
         THEN update_move_after(u1, src, tgt, first, last, after + 1)
         ELSE IF is_move_tabu(u.tl, candidate, u1.s)
         THEN update_move_after(u1, src, tgt, first, last, after + 1)
         ELSE IF ~ cfg.best_moves
         THEN [u1 EXCEPT !.m = candidate, !.ret = 1, !.done = TRUE]
         ELSE update_move_after([u1 EXCEPT !.m = candidate, !.ret = 1],
                                src, tgt, first, last, after + 1))))))

RECURSIVE update_move_loop(_, _, _, _, _, _)
\* the outer loop of update_move over the runs first..last of the source
update_move_loop(u, src, tgt, state, first, last) ==
  IF u.done \/ last >= Len(u.s.routes[src].nodes) THEN u
  ELSE IF inst.capacity < u.s.routes[tgt].load
                            + sum_demands(SubSeq(u.s.routes[src].nodes, first, last))
  THEN update_move_loop(u, src, tgt, state, first + 1, last + 1)
  ELSE update_move_loop(
         update_move_after(
           IF state >= REDUCE_WORKERS /\ u.delta_trucks = 0
           THEN With(move_reduces_workers(u.s.routes[src], first, last,
                                          u.m.delta_workers),
                     LAMBDA mrw : [u EXCEPT !.delta_workers = mrw.reduction,
                                            !.s.routes[src] = mrw.r])
           ELSE u,
           src, tgt, first, last, 1),
         src, tgt, state, first + 1, last + 1)

\* update_move(m, source, target, state, len); u.updated accumulates the
\* results as the callers' updated |= update_move(...) does
update_move(u, src, tgt, state, len) ==
  LET source == u.s.routes[src]
      delta_trucks == IF source.len = EMPTY + len THEN 1 ELSE 0
      delta_workers == IF delta_trucks = 1 THEN source.workers ELSE 0
  IN IF cfg.max_move < len THEN u
     ELSE IF source.len < EMPTY + len THEN u
     ELSE IF u.m.delta_trucks = 1 /\ delta_trucks = 0 THEN u
     ELSE With(update_move_loop([u EXCEPT !.delta_trucks = delta_trucks,
                                          !.delta_workers = delta_workers,
                                          !.ret = 0, !.done = FALSE],
                                src, tgt, state, 2, len + 1),
               LAMBDA r : [r EXCEPT !.updated = max(u.updated, r.ret)])

\* the locals of a caller of update_move around the context x
move_scan(x, m) ==
  [s |-> x.s, tl |-> x.tl, log |-> x.log, m |-> m, updated |-> 0,
   delta_trucks |-> 0, delta_workers |-> 0, ret |-> 0, done |-> FALSE]

\* perform_move(sol, m); the caller's m is init_move(m.improving) afterwards
perform_move(x, m) ==
  IF m.first = 0 THEN x
  ELSE LET source == x.s.routes[m.source]
           idx == get_route_index(x.s, source.id)
           tgt == IF m.delta_trucks # 0 /\ m.target > idx THEN m.target - 1
                  ELSE m.target
       IN With(IF m.delta_trucks # 0
               THEN remove_route([x.s EXCEPT !.routes[m.source] =
                                    remove_nodes_noupdate(source, m.first, m.last)],
                                 idx)
               ELSE IF m.delta_workers # 0
               THEN With([remove_nodes_noupdate(source, m.first, m.last)
                            EXCEPT !.workers = source.workers - m.delta_workers],
                         LAMBDA less :
                           [x.s EXCEPT !.routes[m.source] =
                              calc_lsts(calc_ests(less, 1, less.workers),
                                        Len(less.nodes), less.workers)])
               ELSE [x.s EXCEPT !.routes[m.source] =
                       remove_nodes(source, m.first, m.last)],
               LAMBDA s1 :
                 [logged(x, "move",
                         [s1 EXCEPT !.routes[tgt] =
                            add_nodes(s1.routes[tgt],
                                      SubSeq(source.nodes, m.first, m.last), m.after)])
                    EXCEPT !.tl = update_tabulist_move(x.tl, m, x.s)])

\* the context left by a scan
context(u) == [s |-> u.s, tl |-> u.tl, log |-> u.log]

RECURSIVE move_best_pairs(_, _, _, _)
\* the for loops of move_all_best (and of solve_ts): every pair i > j
move_best_pairs(u, state, i, j) ==
  IF i < 2 THEN u
  ELSE IF j < 1 THEN move_best_pairs(u, state, i - 1, i - 2)
  ELSE move_best_pairs(
         update_move(update_move(update_move(update_move(u, j, i, state, 2),
                                             i, j, state, 2),
                                 j, i, state, 1),
                     i, j, state, 1),
         state, i, j - 1)

RECURSIVE move_all_best_loop(_, _, _)
move_all_best_loop(x, state, success) ==
  With(move_best_pairs(move_scan(x, init_move(IMPROVING)), state,
                       x.s.trucks, x.s.trucks - 1),
       LAMBDA u :
         IF u.updated # 0
         THEN move_all_best_loop(perform_move(context(u), u.m), state, 1)
         ELSE [x |-> perform_move(context(u), u.m), success |-> success])

\* move_all_best(sol, state)
move_all_best(x, state) == move_all_best_loop(x, state, 0)

RECURSIVE move_first_pairs(_, _, _, _, _)
\* the for loops of move_all: a move is performed as soon as it is found;
\* v = [x, updated]
move_first_pairs(v, state, len, i, j) ==
  IF i < 2 THEN v
  ELSE IF j < 1 THEN move_first_pairs(v, state, len, i - 1, i - 2)
  ELSE With(update_move(move_scan(v.x, init_move(IMPROVING)), j, i, state, len),
            LAMBDA u1 :
       With(perform_move(context(u1), u1.m), LAMBDA x1 :
         IF u1.m.delta_trucks # 0
         THEN move_first_pairs([x |-> x1, updated |-> max(v.updated, u1.updated)],
                               state, len, i - 1, i - 2)
         ELSE
         With(update_move(move_scan(x1, init_move(IMPROVING)), i, j, state, len),
              LAMBDA u2 :
         With([x |-> perform_move(context(u2), u2.m),
               updated |-> max(v.updated, max(u1.updated, u2.updated))],
              LAMBDA v2 :
           IF u2.m.delta_trucks # 0
           THEN move_first_pairs(v2, state, len, i - 1, i - 2)
           ELSE move_first_pairs(v2, state, len, i, j - 1)))))

RECURSIVE move_first_rounds(_, _, _, _)
\* do { ... } while (updated) of move_all
move_first_rounds(x, state, len, success) ==
  With(move_first_pairs([x |-> x, updated |-> 0], state, len,
                        x.s.trucks, x.s.trucks - 1),
       LAMBDA v :
         IF v.updated # 0 THEN move_first_rounds(v.x, state, len, 1)
         ELSE [x |-> v.x, success |-> success])

RECURSIVE move_first_lens(_, _, _, _)
\* while (len) { ...; len--; } of move_all
move_first_lens(x, state, len, success) ==
  IF len = 0 THEN [x |-> x, success |-> success]
  ELSE With(move_first_rounds(x, state, len, success),
            LAMBDA r : move_first_lens(r.x, state, len - 1, r.success))

\* move_all(sol, state)
move_all(x, state) ==
  IF cfg.best_moves THEN move_all_best(x, state)
  ELSE move_first_lens(x, state, cfg.max_move, 0)

\* swap(r1, r2, n1, n2): n1 at position p1 of route i, n2 at p2 of route j
swap(s, i, j, p1, p2) ==
  LET r1 == s.routes[i]
      r2 == s.routes[j]
      n1 == r1.nodes[p1]
      n2 == r2.nodes[p2]
  IN With([r1 EXCEPT !.load = r1.load + inst.demand[n2.id] - inst.demand[n1.id],
                     !.nodes[p1] = [n2 EXCEPT !.aest = n2.aest_cache],
                     !.nodes[p1 + 1].aest = r1.nodes[p1 + 1].aest_cache],
          LAMBDA a1 :
     With([r2 EXCEPT !.load = r2.load + inst.demand[n1.id] - inst.demand[n2.id],
                     !.nodes[p2] = [n1 EXCEPT !.aest = n1.aest_cache],
                     !.nodes[p2 + 1].aest = r2.nodes[p2 + 1].aest_cache],
          LAMBDA a2 :
       [s EXCEPT !.routes[i] =
                   calc_lsts(IF p1 + 3 <= Len(a1.nodes)
                             THEN calc_ests(a1, p1 + 2, a1.workers) ELSE a1,
                             p1, a1.workers),
                 !.routes[j] =
                   calc_lsts(IF p2 + 3 <= Len(a2.nodes)
                             THEN calc_ests(a2, p2 + 2, a2.workers) ELSE a2,
                             p2, a2.workers)]))

\* swap_node, if (savings > MIN_DELTA): distances are integers
useful_swap(savings) == savings > 0

RECURSIVE swap_node_loop(_, _, _, _, _)
\* the loops of swap_node over n1 (position p1 of route i) and n2
swap_node_loop(s, i, j, p1, p2) ==
  LET r1 == s.routes[i]
      r2 == s.routes[j]
      n1 == r1.nodes[p1]
      n2 == r2.nodes[p2]
      savings == c_m(0, r1.nodes[p1 - 1].id, n1.id) + c_m(0, n1.id, r1.nodes[p1 + 1].id)
                 + c_m(0, r2.nodes[p2 - 1].id, n2.id) + c_m(0, n2.id, r2.nodes[p2 + 1].id)
                 - c_m(0, r1.nodes[p1 - 1].id, n2.id) - c_m(0, n2.id, r1.nodes[p1 + 1].id)
                 - c_m(0, r2.nodes[p2 - 1].id, n1.id) - c_m(0, n1.id, r2.nodes[p2 + 1].id)
  IN IF p1 >= Len(r1.nodes) THEN [s |-> s, improved |-> 0]
     ELSE IF p2 >= Len(r2.nodes) THEN swap_node_loop(s, i, j, p1 + 1, 2)
     ELSE IF inst.capacity < r1.load - inst.demand[n1.id] + inst.demand[n2.id]
             \/ inst.capacity < r2.load - inst.demand[n2.id] + inst.demand[n1.id]
     THEN swap_node_loop(s, i, j, p1, p2 + 1)
     ELSE
     With(max(r2.nodes[p2 - 1].aest + c_m(r2.workers, r2.nodes[p2 - 1].id, n1.id),
              inst.est[n1.id]),
          LAMBDA c1 :
     With(max(r1.nodes[p1 - 1].aest + c_m(r1.workers, r1.nodes[p1 - 1].id, n2.id),
              inst.est[n2.id]),
          LAMBDA c2 :
     With([s EXCEPT !.routes[i].nodes[p1].aest_cache = c1,
                    !.routes[j].nodes[p2].aest_cache = c2],
          LAMBDA sa :
       IF ~ (c1 <= inst.lst[n1.id] /\ c2 <= inst.lst[n2.id])
       THEN swap_node_loop(sa, i, j, p1, p2 + 1)
       ELSE
       With(max(c2 + c_m(r1.workers, n2.id, r1.nodes[p1 + 1].id),
                inst.est[r1.nodes[p1 + 1].id]),
            LAMBDA d1 :
       With(max(c1 + c_m(r2.workers, n1.id, r2.nodes[p2 + 1].id),
                inst.est[r2.nodes[p2 + 1].id]),
            LAMBDA d2 :
       With([sa EXCEPT !.routes[i].nodes[p1 + 1].aest_cache = d1,
                       !.routes[j].nodes[p2 + 1].aest_cache = d2],
            LAMBDA sb :
         IF ~ (d1 <= r1.nodes[p1 + 1].alst /\ d2 <= r2.nodes[p2 + 1].alst)
         THEN swap_node_loop(sb, i, j, p1, p2 + 1)
         ELSE IF useful_swap(savings)
         THEN [s |-> swap(sb, i, j, p1, p2), improved |-> 1]
         ELSE swap_node_loop(sb, i, j, p1, p2 + 1)))))))

\* swap_node(r1, r2): the first feasible swap that shortens the distance
swap_node(s, i, j) == swap_node_loop(s, i, j, 2, 2)

RECURSIVE swap_pairs(_, _, _)
\* the for loops of swap_all; v = [x, improved]
swap_pairs(v, i, j) ==
  IF i < 2 THEN v
  ELSE IF j < 1 THEN swap_pairs(v, i - 1, i - 2)
  ELSE With(swap_node(v.x.s, i, j), LAMBDA r :
         swap_pairs([x |-> IF r.improved # 0 THEN logged(v.x, "swap", r.s)
                           ELSE [v.x EXCEPT !.s = r.s],
                     improved |-> max(v.improved, r.improved)], i, j - 1))

RECURSIVE swap_all_loop(_, _)
swap_all_loop(x, success) ==
  With(IF cfg.max_swap >= 1
       THEN swap_pairs([x |-> x, improved |-> 0], x.s.trucks, x.s.trucks - 1)
       ELSE [x |-> x, improved |-> 0],
       LAMBDA v :
         IF v.improved # 0 THEN swap_all_loop(v.x, 1)
         ELSE [x |-> v.x, success |-> success])

\* swap_all(sol)
swap_all(x) == swap_all_loop(x, 0)

RECURSIVE relocation_loop(_, _, _, _, _)
\* for (j = 0; j < trucks; ++j) if (j != route_idx) calc_best_insertion(...)
relocation_loop(s, route_idx, n, j, ins) ==
  IF j > s.trucks THEN ins
  ELSE relocation_loop(s, route_idx, n, j + 1,
         IF j = route_idx THEN ins
         ELSE calc_best_insertion(s.routes[j], j, n, ins))

\* remove_nodes(source, n, n); add_nodes(ins.target, n, n, ins.after)
relocate(s, route_idx, p, ins) ==
  With([s EXCEPT !.routes[route_idx] = remove_nodes(s.routes[route_idx], p, p)],
       LAMBDA s1 :
         [s1 EXCEPT !.routes[ins.target] =
            add_nodes(s1.routes[ins.target], <<s.routes[route_idx].nodes[p]>>,
                      ins.after)])

RECURSIVE empty_route_loop(_, _)
\* the while loop of empty_route: n is always the first customer left
empty_route_loop(s, route_idx) ==
  IF Len(s.routes[route_idx].nodes) = 2 THEN [s |-> s, reduced |-> 0]
  ELSE With(relocation_loop(s, route_idx, s.routes[route_idx].nodes[2], 1,
                            no_insertion),
            LAMBDA ins :
         IF ins.cost.d = 0 THEN [s |-> s, reduced |-> 0]
         ELSE With(relocate(s, route_idx, 2, ins), LAMBDA s1 :
                IF s1.routes[route_idx].len = EMPTY THEN [s |-> s1, reduced |-> 1]
                ELSE empty_route_loop(s1, route_idx)))

\* empty_route(sol, route_idx): stops at the first node that cannot move
empty_route(s, route_idx) ==
  IF s.routes[route_idx].len = EMPTY THEN [s |-> s, reduced |-> 1]
  ELSE empty_route_loop(s, route_idx)

RECURSIVE brute_for(_, _)
\* the for loop of brute_reduce_trucks over the routes of the clone
brute_for(clone, i) ==
  IF i > clone.trucks THEN [clone |-> clone, reduced |-> 0]
  ELSE With(empty_route(clone, i), LAMBDA e :
         IF e.reduced # 0 THEN [clone |-> remove_route(e.s, i), reduced |-> 1]
         ELSE brute_for(e.s, i + 1))

RECURSIVE brute_loop(_, _, _)
\* do { ... } while (reduced): sol is replaced by a copy of the clone
brute_loop(x, clone, improved) ==
  With(brute_for(clone, 1), LAMBDA f :
    IF f.reduced # 0
    THEN brute_loop(logged(x, "brute", clone_solution(f.clone)), f.clone, 1)
    ELSE [x |-> x, success |-> improved])

\* brute_reduce_trucks(&sol)
brute_reduce_trucks(x) == brute_loop(x, clone_solution(x.s), 0)

RECURSIVE reduce_trucks_loop(_)
reduce_trucks_loop(x) ==
  With(brute_reduce_trucks(x), LAMBDA b :
  With(move_all(b.x, REDUCE_TRUCKS), LAMBDA m :
  With(swap_all(m.x), LAMBDA w :
    IF b.success # 0 \/ m.success # 0 \/ w.success # 0
    THEN reduce_trucks_loop(w.x)
    ELSE w.x)))

\* reduce_trucks(sol)
reduce_trucks(x) == reduce_trucks_loop(x)

RECURSIVE reduce_all_routes(_, _)
\* for each route: reduce_service_workers
reduce_all_routes(x, i) ==
  IF i > x.s.trucks THEN x
  ELSE With(reduce_service_workers(x.s.routes[i]), LAMBDA res :
         reduce_all_routes(IF res.reduced
                           THEN logged(x, "reduce", [x.s EXCEPT !.routes[i] = res.r])
                           ELSE [x EXCEPT !.s.routes[i] = res.r], i + 1))

RECURSIVE improve_loop(_, _)
\* do { move_all(sol, state) | swap_all(sol) } while (improved)
improve_loop(x, state) ==
  With(move_all(x, state), LAMBDA m :
  With(swap_all(m.x), LAMBDA w :
    IF m.success # 0 \/ w.success # 0 THEN improve_loop(w.x, state) ELSE w.x))

\* reduce_workers(sol)
reduce_workers(x) == improve_loop(reduce_all_routes(x, 1), REDUCE_WORKERS)

\* do_ls(sol)
do_ls(x) ==
  IF cfg.do_ls
  THEN IF cfg.max_workers > 1 THEN reduce_workers(reduce_trucks(x))
       ELSE reduce_trucks(x)
  ELSE reduce_all_routes(x, 1)

(***************************************************************************)
(* VNS (vns.c)                                                             *)
(***************************************************************************)
RECURSIVE distribute_loop_keeping_route(_, _, _, _)
RECURSIVE distribute_loop(_, _, _, _)
\* the while loop of distribute_nodes: a node that cannot move is skipped
distribute_loop(s, route_idx, p, old_len) ==
  IF p >= Len(s.routes[route_idx].nodes)
  THEN [s |-> s, moved |-> old_len - s.routes[route_idx].len]
  ELSE With(relocation_loop(s, route_idx, s.routes[route_idx].nodes[p], 1,
                            no_insertion),
            LAMBDA ins :
         IF ins.cost.d = 0 THEN distribute_loop(s, route_idx, p + 1, old_len)
         ELSE With(relocate(s, route_idx, p, ins), LAMBDA s1 :
                IF s1.routes[route_idx].len = EMPTY
                THEN [s |-> remove_route(s1, route_idx), moved |-> old_len - EMPTY]
                ELSE distribute_loop(s1, route_idx, p, old_len)))

\* the mutated distribute_nodes: the emptied route stays in the solution
distribute_loop_keeping_route(s, route_idx, p, old_len) ==
  IF p >= Len(s.routes[route_idx].nodes)
  THEN [s |-> s, moved |-> old_len - s.routes[route_idx].len]
  ELSE With(relocation_loop(s, route_idx, s.routes[route_idx].nodes[p], 1,
                            no_insertion),
            LAMBDA ins :
         IF ins.cost.d = 0 THEN distribute_loop_keeping_route(s, route_idx, p + 1, old_len)
         ELSE With(relocate(s, route_idx, p, ins), LAMBDA s1 :
                IF s1.routes[route_idx].len = EMPTY
                THEN [s |-> s1, moved |-> old_len - EMPTY]
                ELSE distribute_loop_keeping_route(s1, route_idx, p, old_len)))

distribute_nodes_keeping_route(s, route_idx) ==
  IF s.routes[route_idx].len = EMPTY THEN [s |-> s, moved |-> 0]
  ELSE distribute_loop_keeping_route(s, route_idx, 2, s.routes[route_idx].len)

\* distribute_nodes(sol, route_idx): the number of nodes moved
distribute_nodes(s, route_idx) ==
  IF s.routes[route_idx].len = EMPTY THEN [s |-> s, moved |-> 0]
  ELSE distribute_loop(s, route_idx, 2, s.routes[route_idx].len)

\* improve_solution(sol)
improve_solution(x) ==
  improve_loop(reduce_all_routes(improve_loop(x, REDUCE_TRUCKS), 1), REDUCE_WORKERS)

(***************************************************************************)
(* Pheromone update and termination predicate (aco.c, vrptwms.c)           *)
(***************************************************************************)
\* the cells update_pheromone reinforces for route number r (0-based) of sol
reinforced(s, r) ==
  LET ns == s.routes[r + 1].nodes
  IN {<<inst.num_nodes + r, ns[2].id>>, <<ns[Len(ns) - 1].id, inst.num_nodes + r>>}
       \cup {<<ns[p - 1].id, ns[p].id>> : p \in 3..(Len(ns) - 1)}

\* the mutated update: evaporation without the lower bound
update_pheromone_unbounded(p_m, s) ==
  [i \in DOMAIN p_m |-> [j \in DOMAIN p_m |->
     LET v == IF i >= 1 /\ j >= 1 THEN p_m[i][j] \div 2
              ELSE p_m[i][j]
     IN v + (PScale \div 2) * Cardinality({r \in 0..(s.trucks - 1) :
                                             <<i, j>> \in reinforced(s, r)})]]

\* update_pheromone(pb, sol) with rho = 1/2: evaporation, then 1 - rho is
\* added on the edges of sol
update_pheromone(p_m, s) ==
  [i \in DOMAIN p_m |-> [j \in DOMAIN p_m |->
     LET v == IF i >= 1 /\ j >= 1 THEN max(p_m[i][j] \div 2, cfg.min_pheromone)
              ELSE p_m[i][j]
     IN v + (PScale \div 2) * Cardinality({r \in 0..(s.trucks - 1) :
                                             <<i, j>> \in reinforced(s, r)})]]

\* the mutated proceed: a budget counts as reached only once it is exceeded
proceed_exceeded(runtime, max_iterations, elapsed, iteration) ==
  IF runtime # 0 /\ elapsed > runtime THEN 0
  ELSE IF max_iterations # 0 /\ iteration > max_iterations THEN 0
  ELSE 1

\* proceed(pb, iteration) with elapsed = time(NULL) - pb->start_time
proceed(runtime, max_iterations, elapsed, iteration) ==
  IF runtime # 0 /\ elapsed >= runtime THEN 0
  ELSE IF max_iterations # 0 /\ iteration >= max_iterations THEN 0
  ELSE 1

(***************************************************************************)
(* Solution cache (cache.cpp).  unsigned long values are sequences of      *)
(* eight base-256 digits, least significant first, so that the 64-bit      *)
(* product of Cache::hash is computed at its full width.                   *)
(***************************************************************************)
Base == 2 ^ 8

\* std::numeric_limits<unsigned long>::max()
ULONG_MAX == [i \in 1..8 |-> Base - 1]

RECURSIVE MulDigits(_, _, _, _)
\* digits * k + carry, written with Len(digits) + extra digits
MulDigits(digits, k, carry, extra) ==
  IF digits = <<>>
  THEN IF extra = 0 THEN <<>>
       ELSE <<carry % Base>> \o MulDigits(<<>>, k, carry \div Base, extra - 1)
  ELSE <<(Head(digits) * k + carry) % Base>>
         \o MulDigits(Tail(digits), k, (Head(digits) * k + carry) \div Base, extra)

RECURSIVE DivDigits(_, _, _)
\* floor(digits / k): long division from the most significant digit
DivDigits(digits, k, rem) ==
  IF digits = <<>> THEN <<>>
  ELSE LET top == digits[Len(digits)]
           cur == rem * Base + top
       IN DivDigits(SubSeq(digits, 1, Len(digits) - 1), k, cur % k) \o <<cur \div k>>

\* m_factor of the constructor: ULONG_MAX / num_nodes
m_factor(num_nodes) == DivDigits(ULONG_MAX, num_nodes, 0)

\* cost * m_factor as a real number, truncated: cost is cost_cache units of
\* 1 / CostUnit.  The product has up to eleven digits.
hash_product(cost_cache, num_nodes) ==
  DivDigits(MulDigits(m_factor(num_nodes), cost_cache, 0, 3), CostUnit, 0)

\* the product is representable as unsigned long
hash_fits(cost_cache, num_nodes) ==
  \A i \in 9..11 : hash_product(cost_cache, num_nodes)[i] = 0

\* what static_cast<unsigned long> can yield for a value that does not fit
\* (undefined behaviour): zero, the largest value, or the low 64 bits
UBOutcomes == {"zero", "max", "wrap"}

\* Cache::hash(s); ub is the outcome of an out-of-range conversion
hash(s, ub) ==
  LET p == hash_product(s.cost_cache, inst.num_nodes)
  IN IF hash_fits(s.cost_cache, inst.num_nodes) \/ ub = "wrap" THEN SubSeq(p, 1, 8)
     ELSE IF ub = "zero" THEN [i \in 1..8 |-> 0]
     ELSE ULONG_MAX

\* Cache::add: m_cache[hash] = 1
cache_add(m_cache, h) ==
  [k \in DOMAIN m_cache \cup {h} |-> IF k = h THEN 1 ELSE m_cache[k]]

\* the mutated contains: as with operator[], a hash that is asked for is
\* entered with a counter of zero
cache_contains_creating(m_cache, h) ==
  IF h \in DOMAIN m_cache
  THEN [m_cache |-> [m_cache EXCEPT ![h] = m_cache[h] + 1], ret |-> m_cache[h] + 1]
  ELSE [m_cache |-> [k \in DOMAIN m_cache \cup {h} |-> IF k = h THEN 0 ELSE m_cache[k]],
        ret |-> 0]

\* the mutated contains: a known hash is counted but reported as absent
cache_contains_silent(m_cache, h) ==
  IF h \in DOMAIN m_cache
  THEN [m_cache |-> [m_cache EXCEPT ![h] = m_cache[h] + 1], ret |-> 0]
  ELSE [m_cache |-> m_cache, ret |-> 0]

\* Cache::contains: increments and returns the counter of a known hash
cache_contains(m_cache, h) ==
  IF h \in DOMAIN m_cache
  THEN [m_cache |-> [m_cache EXCEPT ![h] = m_cache[h] + 1], ret |-> m_cache[h] + 1]
  ELSE [m_cache |-> m_cache, ret |-> 0]

\* Cache::size
cache_size(m_cache) == Cardinality(DOMAIN m_cache)

(***************************************************************************)
(* Configurations and runs.  BaseConfig holds the defaults of config.c at  *)
(* the scale of the model (rho = 1/2, min_pheromone = 1/4, small budgets); *)
(* every scenario is a configuration config_is_valid accepts.              *)
(***************************************************************************)
BaseConfig ==
  [adapt_service_times |-> FALSE, ants |-> 0, best_moves |-> TRUE,
   deterministic |-> FALSE, do_ls |-> TRUE, max_failed_attempts |-> 1,
   max_iterations |-> 0, max_move |-> 2, max_swap |-> 1, max_workers |-> 3,
   metaheuristic |-> "aco", min_pheromone |-> PScale \div 4, rcl_size |-> 2,
   runtime |-> 2, start_heuristic |-> "solomon", tabutime |-> 2,
   use_weights |-> TRUE]

\* a run limited by iterations only
Iter(c, n) == [c EXCEPT !.runtime = 0, !.max_iterations = n]

Scenarios ==
  { [raw |-> RawA, cfg |-> [BaseConfig EXCEPT !.metaheuristic = "none"]],
    [raw |-> RawA, cfg |-> [BaseConfig EXCEPT !.metaheuristic = "none",
                                              !.deterministic = TRUE]],
    [raw |-> RawB, cfg |-> [BaseConfig EXCEPT !.metaheuristic = "none",
                                              !.best_moves = FALSE]],
    [raw |-> RawF, cfg |-> [BaseConfig EXCEPT !.metaheuristic = "none"]],
    [raw |-> RawI, cfg |-> [BaseConfig EXCEPT !.metaheuristic = "none",
                                              !.deterministic = TRUE]],
    [raw |-> RawA, cfg |-> Iter([BaseConfig EXCEPT !.ants = 2], 3)],
    [raw |-> RawC, cfg |-> [BaseConfig EXCEPT !.ants = 1]],
    [raw |-> RawI, cfg |-> Iter([BaseConfig EXCEPT !.ants = 1], 1)],
    [raw |-> RawA, cfg |-> Iter([BaseConfig EXCEPT !.ants = 1, !.do_ls = FALSE,
                                                   !.max_workers = 1,
                                                   !.max_failed_attempts = 2,
                                                   !.start_heuristic = "parallel"], 3)],
    [raw |-> RawB, cfg |-> Iter([BaseConfig EXCEPT !.ants = 1,
                                                   !.start_heuristic = "parallel"], 2)],
    [raw |-> RawE, cfg |-> Iter([BaseConfig EXCEPT !.metaheuristic = "cached_aco",
                                                   !.ants = 2], 6)],
    [raw |-> RawB, cfg |-> Iter([BaseConfig EXCEPT !.metaheuristic = "cached_aco",
                                                   !.ants = 7, !.do_ls = FALSE,
                                                   !.max_workers = 1], 7)],
    [raw |-> RawA, cfg |-> Iter([BaseConfig EXCEPT !.metaheuristic = "grasp"], 2)],
    [raw |-> RawC, cfg |-> Iter([BaseConfig EXCEPT !.metaheuristic = "cached_grasp"], 3)],
    [raw |-> RawD, cfg |-> Iter([BaseConfig EXCEPT !.metaheuristic = "cached_grasp"], 1)],
    [raw |-> RawA, cfg |-> Iter([BaseConfig EXCEPT !.metaheuristic = "ts"], 3)],
    [raw |-> RawB, cfg |-> [BaseConfig EXCEPT !.metaheuristic = "ts", !.tabutime = 1]],
    [raw |-> RawF, cfg |-> Iter([BaseConfig EXCEPT !.metaheuristic = "ts"], 4)],
    [raw |-> RawJ, cfg |-> Iter([BaseConfig EXCEPT !.metaheuristic = "ts"], 4)],
    [raw |-> RawA, cfg |-> Iter([BaseConfig EXCEPT !.metaheuristic = "vns"], 2)],
    [raw |-> RawC, cfg |-> Iter([BaseConfig EXCEPT !.metaheuristic = "vns"], 1)],
    [raw |-> RawG, cfg |-> Iter([BaseConfig EXCEPT !.metaheuristic = "vns",
                                                   !.deterministic = TRUE], 2)] }

\* the driver's local variables before solve()
InitLoc ==
  [best_cost |-> INFINITY, cost |-> INFINITY, i |-> 0, hits |-> 0,
   saturized |-> FALSE, state |-> REDUCE_TRUCKS, updated |-> 0,
   ctor |-> "none", target |-> "sol", ret |-> <<>>, fleetsize |-> 0,
   max_trucks |-> 0, insertions |-> {}, rounds |-> 0]

\* the history: what was constructed, evaluated, logged, hashed and written
InitHist ==
  [constructed |-> 0, best |-> INFINITY, ls |-> <<>>, steps |-> <<>>, ls_pre |-> <<0, 0, 0>>, ls_post |-> <<0, 0, 0>>,
   query |-> [queried |-> FALSE, known |-> FALSE, added |-> FALSE,
              ls |-> FALSE, compared |-> FALSE, fits |-> TRUE, at |-> 0,
              h |-> <<>>],
   known_hits |-> 0, over_hits |-> 0, saturation_time |-> 0,
   unit |-> [op |-> "none"], added |-> {},
   tabu |-> [k \in 0..(inst.num_nodes - 1) |-> [r \in 0..(inst.num_nodes - 2) |-> 0]]]

Init ==
  \E sc \in Scenarios :
    /\ cfg = [sc.cfg EXCEPT !.ants = IF sc.cfg.ants = 0 THEN Len(sc.raw.x) - 1
                                     ELSE sc.cfg.ants]
    /\ inst = get_problem(sc.raw, sc.cfg)
    /\ pb = [sol |-> new_solution, num_solutions |-> 0, start_time |-> 0,
             pheromone |-> [i \in 0..(2 * inst.num_nodes - 2) |->
                              [j \in 0..(2 * inst.num_nodes - 2) |-> InitialPheromone]],
             state |-> REDUCE_TRUCKS, attempts |-> 0,
             tl |-> new_tabulist(sc.cfg, inst.num_nodes)]
    /\ sol = new_solution
    /\ loc = InitLoc
    /\ cache = <<>>
    /\ pc = "start"
    /\ now = 0
    /\ hist = InitHist

\* time(NULL) - pb->start_time
elapsed == now - pb.start_time

\* the wall clock advances; it is read by the loop heads and where a
\* solution is accepted, so only there does its value matter
ClockReaders ==
  {"aco_loop", "aco_compare", "caco_loop", "caco_query", "caco_compare",
   "grasp_loop", "grasp_compare", "cgrasp_loop", "cgrasp_compare",
   "ts_move", "ts_accept", "ts_proceed", "vns_loop", "vns_compare"}

Tick ==
  /\ pc \in ClockReaders
  /\ now < MaxClock
  /\ now' = now + 1
  /\ UNCHANGED <<inst, cfg, pb, sol, loc, cache, pc, hist>>

\* solve(): dispatch on the metaheuristic
Solve ==
  /\ pc = "start"
  /\ pc' = CASE cfg.metaheuristic = "aco" -> "aco_loop"
             [] cfg.metaheuristic = "cached_aco" -> "caco_loop"
             [] cfg.metaheuristic = "grasp" -> "grasp_loop"
             [] cfg.metaheuristic = "cached_grasp" -> "cgrasp_loop"
             [] OTHER -> "seed"
  /\ loc' = CASE cfg.metaheuristic \in {"none", "ts", "vns"} ->
                   [loc EXCEPT !.ctor = "solomon", !.target = "pb",
                               !.fleetsize = pb.sol.num_unrouted,
                               !.ret = <<CASE cfg.metaheuristic = "none" -> "none_ls"
                                           [] cfg.metaheuristic = "ts" -> "ts_init"
                                           [] OTHER -> "vns_init">>]
              [] OTHER -> loc
  /\ sol' = new_solution
  /\ UNCHANGED <<inst, cfg, pb, cache, now, hist>>

(***************************************************************************)
(* Sequential construction: one action per seed and per insertion          *)
(***************************************************************************)
\* the solution under construction: the driver's sol or pb->sol
target_solution == IF loc.target = "pb" THEN pb.sol ELSE sol

\* the seeds get_best_seed / get_seed can return (positions in unrouted)
seeds(t) ==
  IF loc.ctor = "solomon" /\ cfg.deterministic THEN {get_best_seed(t)}
  ELSE get_seed(t)

\* solve_solomon, fill loop: the insertions that can be performed next
solomon_candidates(t) ==
  LET ins == solomon_fill_loop(t, 1, no_insertion)
      insertions == solomon_insertions(t, FALSE)
  IN IF cfg.deterministic
     THEN {i \in {ins} : i.cost.d # 0}
     ELSE IF \A k \in DOMAIN insertions : insertions[k].cost.d = 0 THEN {}
     ELSE {insertions[k] : k \in aco_pick_insertion(insertions)}

\* solve_solomon_aco, fill loop
aco_candidates(t) ==
  LET insertions == solomon_insertions(t, TRUE)
  IN IF \A k \in DOMAIN insertions : insertions[k].cost.d = 0 THEN {}
     ELSE {insertions[k] : k \in aco_pick_insertion(insertions)}

\* grasp_solve_solomon, fill loop: the list is empty at each turn
grasp_candidates(t) ==
  LET il == grasp_rcl_loop(t, 1, init_insertion_list(cfg.rcl_size))
  IN {il.list[k] : k \in pick_insertion(il.list, cfg.use_weights)}

candidates(t) ==
  CASE loc.ctor = "solomon" -> solomon_candidates(t)
    [] loc.ctor = "grasp" -> grasp_candidates(t)
    [] OTHER -> aco_candidates(t)

\* head of the outer while loop: return, or open a route with a seed
Seed ==
  /\ pc = "seed"
  /\ LET t == target_solution
     IN IF Len(t.unrouted) = 0 \/ (loc.ctor = "solomon" /\ t.trucks = loc.fleetsize)
        THEN /\ pc' = Head(loc.ret)
             /\ loc' = [loc EXCEPT !.ret = Tail(loc.ret)]
             /\ UNCHANGED <<pb, sol>>
        ELSE \E k \in seeds(t) :
               LET t1 == new_route(remove_unrouted(t, k), t.unrouted[k], cfg.max_workers)
               IN /\ pb' = IF loc.target = "pb" THEN [pb EXCEPT !.sol = t1] ELSE pb
                  /\ sol' = IF loc.target = "pb" THEN sol ELSE t1
                  /\ pc' = "fill"
                  /\ UNCHANGED loc
  /\ UNCHANGED <<inst, cfg, cache, now, hist>>

\* head of the inner while loop: insert a node or leave the route
Fill ==
  /\ pc = "fill"
  /\ LET t == target_solution
     IN IF Len(t.unrouted) = 0 \/ candidates(t) = {}
        THEN /\ pc' = "seed"
             /\ UNCHANGED <<pb, sol>>
        ELSE \E ins \in candidates(t) :
               /\ pb' = IF loc.target = "pb" THEN [pb EXCEPT !.sol = insert(t, ins)] ELSE pb
               /\ sol' = IF loc.target = "pb" THEN sol ELSE insert(t, ins)
               /\ pc' = "fill"
  /\ UNCHANGED <<inst, cfg, loc, cache, now, hist>>

(***************************************************************************)
(* No metaheuristic (vrptwms.c, solve)                                     *)
(***************************************************************************)
\* pb->sol = do_ls(pb->sol) after solve_solomon
NoneLs ==
  /\ pc = "none_ls"
  /\ LET x == do_ls(ls_context(pb.sol, pb.tl))
     IN /\ pb' = [pb EXCEPT !.sol = x.s, !.tl = x.tl]
        /\ hist' = [hist EXCEPT !.ls = x.log, !.ls_pre = measure(pb.sol),
                                !.ls_post = measure(x.s)]
  /\ pc' = "done"
  /\ UNCHANGED <<inst, cfg, sol, loc, cache, now>>

(***************************************************************************)
(* ACO (aco.c, solve_aco)                                                  *)
(***************************************************************************)
\* aco_construct_routes: where the construction starts
aco_construct_routes == IF cfg.start_heuristic = "parallel" THEN "par_init" ELSE "seed"

\* while (proceed(pb, pb->num_solutions)); a run limited by the clock alone
\* is followed for MaxBatches rounds
AcoLoop ==
  /\ pc = "aco_loop"
  /\ IF proceed(cfg.runtime, cfg.max_iterations, elapsed, pb.num_solutions) # 0
     THEN /\ loc.rounds < MaxBatches
          /\ loc' = [loc EXCEPT !.i = 0, !.rounds = loc.rounds + 1]
          /\ pc' = "aco_ant"
     ELSE /\ pc' = "done"
          /\ UNCHANGED loc
  /\ UNCHANGED <<inst, cfg, pb, sol, cache, now, hist>>

\* the mutated end of a batch: the batch is counted as one solution
AcoAnt_counting_batches ==
  /\ pc = "aco_ant"
  /\ IF loc.i < cfg.ants
     THEN /\ sol' = reset_solution(sol)
          /\ loc' = [loc EXCEPT !.ctor = "aco", !.target = "sol", !.ret = <<"aco_ls">>]
          /\ pc' = aco_construct_routes
          /\ hist' = [hist EXCEPT !.constructed = hist.constructed + 1]
          /\ UNCHANGED pb
     ELSE /\ pb' = [pb EXCEPT !.num_solutions = pb.num_solutions + 1,
                              !.pheromone = update_pheromone(pb.pheromone, pb.sol)]
          /\ pc' = "aco_loop"
          /\ hist' = [hist EXCEPT !.unit = [op |-> "update_pheromone",
                                            before |-> pb.pheromone,
                                            sol |-> pb.sol]]
          /\ UNCHANGED <<sol, loc>>
  /\ UNCHANGED <<inst, cfg, cache, now>>

\* for (i = 0; i < ants; ++i): reset and construct, or end of the batch
AcoAnt ==
  /\ pc = "aco_ant"
  /\ IF loc.i < cfg.ants
     THEN /\ sol' = reset_solution(sol)
          /\ loc' = [loc EXCEPT !.ctor = "aco", !.target = "sol", !.ret = <<"aco_ls">>]
          /\ pc' = aco_construct_routes
          /\ hist' = [hist EXCEPT !.constructed = hist.constructed + 1]
          /\ UNCHANGED pb
     ELSE /\ pb' = [pb EXCEPT !.num_solutions = pb.num_solutions + cfg.ants,
                              !.pheromone = update_pheromone(pb.pheromone, pb.sol)]
          /\ pc' = "aco_loop"
          /\ hist' = [hist EXCEPT !.unit = [op |-> "update_pheromone",
                                            before |-> pb.pheromone,
                                            sol |-> pb.sol]]
          /\ UNCHANGED <<sol, loc>>
  /\ UNCHANGED <<inst, cfg, cache, now>>

\* sol = do_ls(sol); cost = calc_costs(sol)
AcoLs ==
  /\ pc = "aco_ls"
  /\ LET x == do_ls(ls_context(sol, pb.tl))
     IN /\ sol' = calc_costs(x.s)
        /\ loc' = [loc EXCEPT !.cost = calc_costs(x.s).cost_cache]
        /\ hist' = [hist EXCEPT !.ls = x.log, !.ls_pre = measure(sol),
                                !.ls_post = measure(x.s)]
  /\ pc' = "aco_compare"
  /\ UNCHANGED <<inst, cfg, pb, cache, now>>

\* if (cost < best_cost) the scratch solution and the incumbent are swapped
AcoCompare ==
  /\ pc = "aco_compare"
  /\ IF loc.cost < loc.best_cost
     THEN /\ pb' = [pb EXCEPT !.sol = [sol EXCEPT !.time = elapsed]]
          /\ sol' = pb.sol
     ELSE UNCHANGED <<pb, sol>>
  /\ loc' = [loc EXCEPT !.best_cost = fmin(loc.cost, loc.best_cost), !.i = loc.i + 1]
  /\ hist' = [hist EXCEPT !.best = fmin(hist.best, loc.cost)]
  /\ pc' = "aco_ant"
  /\ UNCHANGED <<inst, cfg, cache, now>>

(***************************************************************************)
(* Cached ACO (cached_aco.cpp, solve_cached_aco)                           *)
(***************************************************************************)
\* the mutated test: the first hit already counts as saturation
saturated_at_first_hit(hits, max_hits, saturized) == hits > 0 /\ ~ saturized

\* if (hits > max_hits and !saturized)
saturated(hits, max_hits, saturized) == hits > max_hits /\ ~ saturized

CachedAcoLoop ==
  /\ pc = "caco_loop"
  /\ IF proceed(cfg.runtime, cfg.max_iterations, elapsed, pb.num_solutions) # 0
     THEN /\ loc.rounds < MaxBatches
          /\ loc' = [loc EXCEPT !.i = 0, !.rounds = loc.rounds + 1]
          /\ pc' = "caco_ant"
     ELSE /\ pc' = "done"
          /\ UNCHANGED loc
  /\ UNCHANGED <<inst, cfg, pb, sol, cache, now, hist>>

CachedAcoAnt ==
  /\ pc = "caco_ant"
  /\ IF loc.i < cfg.ants
     THEN /\ sol' = reset_solution(sol)
          /\ loc' = [loc EXCEPT !.ctor = "aco", !.target = "sol", !.ret = <<"caco_query">>]
          /\ pc' = aco_construct_routes
          /\ hist' = [hist EXCEPT !.constructed = hist.constructed + 1,
                                  !.query = InitHist.query]
          /\ UNCHANGED pb
     ELSE /\ pb' = [pb EXCEPT !.num_solutions = pb.num_solutions + cfg.ants,
                              !.pheromone = update_pheromone(pb.pheromone, pb.sol)]
          /\ pc' = "caco_loop"
          /\ hist' = [hist EXCEPT !.unit = [op |-> "update_pheromone",
                                            before |-> pb.pheromone,
                                            sol |-> pb.sol]]
          /\ UNCHANGED <<sol, loc>>
  /\ UNCHANGED <<inst, cfg, cache, now>>

\* cost = calc_costs(sol); hits = cache.contains(*sol); on a hit the ant is
\* done (and saturation_time is written once hits exceeds max_hits),
\* otherwise cache.add(*sol)
CachedAcoQuery ==
  /\ pc = "caco_query"
  /\ \E ub \in UBOutcomes :
       LET s1 == calc_costs(sol)
           h == hash(s1, ub)
           r == cache_contains(cache, h)
       IN /\ sol' = s1
          /\ hist' = [hist EXCEPT
                        !.query = [hist.query EXCEPT
                                     !.queried = TRUE, !.known = h \in DOMAIN cache,
                                     !.added = r.ret = 0,
                                     !.fits = hash_fits(s1.cost_cache, inst.num_nodes),
                                     !.at = elapsed, !.h = h],
                        !.known_hits = hist.known_hits
                                         + (IF h \in DOMAIN cache THEN 1 ELSE 0),
                        !.over_hits = hist.over_hits
                                         + (IF r.ret > MaxHits THEN 1 ELSE 0),
                        !.saturation_time =
                          IF r.ret # 0 /\ saturated(r.ret, MaxHits, loc.saturized)
                          THEN elapsed ELSE hist.saturation_time]
          /\ IF r.ret # 0
             THEN /\ cache' = r.m_cache
                  /\ pb' = IF saturated(r.ret, MaxHits, loc.saturized)
                           THEN [pb EXCEPT !.sol.saturation_time = elapsed]
                           ELSE pb
                  /\ loc' = [loc EXCEPT !.cost = s1.cost_cache, !.hits = r.ret,
                                        !.saturized =
                                          loc.saturized
                                            \/ saturated(r.ret, MaxHits, loc.saturized),
                                        !.i = loc.i + 1]
                  /\ pc' = "caco_ant"
             ELSE /\ cache' = cache_add(r.m_cache, h)
                  /\ loc' = [loc EXCEPT !.cost = s1.cost_cache, !.hits = r.ret]
                  /\ pc' = "caco_ls"
                  /\ UNCHANGED pb
  /\ UNCHANGED <<inst, cfg, now>>

CachedAcoLs ==
  /\ pc = "caco_ls"
  /\ LET x == do_ls(ls_context(sol, pb.tl))
     IN /\ sol' = calc_costs(x.s)
        /\ loc' = [loc EXCEPT !.cost = calc_costs(x.s).cost_cache]
        /\ hist' = [hist EXCEPT !.ls = x.log, !.ls_pre = measure(sol),
                                !.ls_post = measure(x.s),
                                !.query.ls = TRUE]
  /\ pc' = "caco_compare"
  /\ UNCHANGED <<inst, cfg, pb, cache, now>>

CachedAcoCompare ==
  /\ pc = "caco_compare"
  /\ IF loc.cost < loc.best_cost
     THEN /\ pb' = [pb EXCEPT !.sol = [sol EXCEPT !.time = elapsed]]
          /\ sol' = pb.sol
     ELSE UNCHANGED <<pb, sol>>
  /\ loc' = [loc EXCEPT !.best_cost = fmin(loc.cost, loc.best_cost), !.i = loc.i + 1]
  /\ hist' = [hist EXCEPT !.best = fmin(hist.best, loc.cost), !.query.compared = TRUE]
  /\ pc' = "caco_ant"
  /\ UNCHANGED <<inst, cfg, cache, now>>

(***************************************************************************)
(* Parallel construction (aco.c, solve_parallel_aco)                       *)
(***************************************************************************)
\* get_parallel_seed: roulette over the pheromone next to the new depot
get_parallel_seed(s) ==
  Roulette([k \in 1..Len(s.unrouted) |->
     pb.pheromone[inst.num_nodes + s.trucks][s.unrouted[k].id]
       + pb.pheromone[s.unrouted[k].id][inst.num_nodes + s.trucks]])

\* the mutated init_parallel_routes: one route less in every state
ParallelInit_always_less ==
  /\ pc = "par_init"
  /\ IF pb.sol.trucks = 0
     THEN /\ loc' = [loc EXCEPT !.ctor = "solomon", !.target = "pb",
                                !.fleetsize = inst.num_nodes,
                                !.ret = <<"par_init">> \o loc.ret]
          /\ pc' = "seed"
     ELSE /\ loc' = [loc EXCEPT !.ctor = "parallel", !.target = "sol",
                                !.max_trucks = pb.sol.trucks - 1]
          /\ pc' = "par_seed"
  /\ UNCHANGED <<inst, cfg, pb, sol, cache, now, hist>>

\* init_parallel_routes, first part: without a past solution solve_solomon
\* runs on pb->sol itself; then max_trucks is read from pb->sol
ParallelInit ==
  /\ pc = "par_init"
  /\ IF pb.sol.trucks = 0
     THEN /\ loc' = [loc EXCEPT !.ctor = "solomon", !.target = "pb",
                                !.fleetsize = inst.num_nodes,
                                !.ret = <<"par_init">> \o loc.ret]
          /\ pc' = "seed"
     ELSE /\ loc' = [loc EXCEPT !.ctor = "parallel", !.target = "sol",
                                !.max_trucks = IF pb.state = REDUCE_TRUCKS
                                               THEN pb.sol.trucks - 1
                                               ELSE pb.sol.trucks]
          /\ pc' = "par_seed"
  /\ UNCHANGED <<inst, cfg, pb, sol, cache, now, hist>>

\* init_parallel_routes, the for loop; then init_parallel_insertions
ParallelSeed ==
  /\ pc = "par_seed"
  /\ IF sol.trucks < loc.max_trucks
     THEN /\ \E k \in get_parallel_seed(sol) :
               sol' = new_route(remove_unrouted(sol, k), sol.unrouted[k], cfg.max_workers)
          /\ UNCHANGED <<loc, pc>>
     ELSE /\ loc' = [loc EXCEPT !.insertions = init_parallel_insertions(sol)]
          /\ pc' = "par_fill"
          /\ UNCHANGED sol
  /\ UNCHANGED <<inst, cfg, pb, cache, now, hist>>

\* the mutated solve_parallel_aco: the counter is cleared, the state stays
ParallelFill_never_advancing ==
  /\ pc = "par_fill"
  /\ IF loc.insertions = {}
     THEN /\ pb' = IF Len(sol.unrouted) = 0 THEN [pb EXCEPT !.attempts = 0]
                   ELSE IF pb.attempts + 1 >= cfg.max_failed_attempts
                           /\ pb.state = REDUCE_TRUCKS
                   THEN [pb EXCEPT !.attempts = 0]
                   ELSE [pb EXCEPT !.attempts = pb.attempts + 1]
          /\ loc' = [loc EXCEPT !.ctor = "aco"]
          /\ pc' = "seed"
          /\ UNCHANGED sol
     ELSE /\ \E ins \in loc.insertions :
               /\ sol' = insert(sol, ins)
               /\ loc' = [loc EXCEPT !.insertions =
                            update_insertions(loc.insertions, ins, insert(sol, ins))]
          /\ UNCHANGED <<pb, pc>>
  /\ UNCHANGED <<inst, cfg, cache, now, hist>>

\* while (insertions): pick, insert, update; afterwards pb->attempts and
\* pb->state are updated and solve_solomon_aco routes what is left
ParallelFill ==
  /\ pc = "par_fill"
  /\ IF loc.insertions = {}
     THEN /\ pb' = IF Len(sol.unrouted) = 0 THEN [pb EXCEPT !.attempts = 0]
                   ELSE IF pb.attempts + 1 >= cfg.max_failed_attempts
                           /\ pb.state = REDUCE_TRUCKS
                   THEN [pb EXCEPT !.state = pb.state + 1, !.attempts = 0]
                   ELSE [pb EXCEPT !.attempts = pb.attempts + 1]
          /\ loc' = [loc EXCEPT !.ctor = "aco"]
          /\ pc' = "seed"
          /\ UNCHANGED sol
     ELSE /\ \E ins \in loc.insertions :
               /\ sol' = insert(sol, ins)
               /\ loc' = [loc EXCEPT !.insertions =
                            update_insertions(loc.insertions, ins, insert(sol, ins))]
          /\ UNCHANGED <<pb, pc>>
  /\ UNCHANGED <<inst, cfg, cache, now, hist>>

(***************************************************************************)
(* GRASP (grasp.c) and cached GRASP (cached_grasp.cpp)                     *)
(***************************************************************************)
GraspLoop ==
  /\ pc = "grasp_loop"
  /\ IF proceed(cfg.runtime, cfg.max_iterations, elapsed, pb.num_solutions) # 0
     THEN /\ loc.rounds < MaxBatches
          /\ loc' = [loc EXCEPT !.rounds = loc.rounds + 1, !.ctor = "grasp",
                                !.target = "sol", !.ret = <<"grasp_ls">>]
          /\ hist' = [hist EXCEPT !.constructed = hist.constructed + 1]
          /\ pc' = "seed"
     ELSE /\ pc' = "done"
          /\ UNCHANGED <<loc, hist>>
  /\ UNCHANGED <<inst, cfg, pb, sol, cache, now>>

GraspLs ==
  /\ pc = "grasp_ls"
  /\ LET x == do_ls(ls_context(sol, pb.tl))
     IN /\ sol' = calc_costs(x.s)
        /\ loc' = [loc EXCEPT !.cost = calc_costs(x.s).cost_cache]
        /\ hist' = [hist EXCEPT !.ls = x.log, !.ls_pre = measure(sol),
                                !.ls_post = measure(x.s)]
  /\ pc' = "grasp_compare"
  /\ UNCHANGED <<inst, cfg, pb, cache, now>>

\* compare and swap; reset_solution(sol); pb->num_solutions++
GraspCompare ==
  /\ pc = "grasp_compare"
  /\ IF loc.cost < loc.best_cost
     THEN /\ pb' = [pb EXCEPT !.sol = [sol EXCEPT !.time = elapsed],
                              !.num_solutions = pb.num_solutions + 1]
          /\ sol' = reset_solution(pb.sol)
     ELSE /\ pb' = [pb EXCEPT !.num_solutions = pb.num_solutions + 1]
          /\ sol' = reset_solution(sol)
  /\ loc' = [loc EXCEPT !.best_cost = fmin(loc.cost, loc.best_cost)]
  /\ hist' = [hist EXCEPT !.best = fmin(hist.best, loc.cost)]
  /\ pc' = "grasp_loop"
  /\ UNCHANGED <<inst, cfg, cache, now>>

\* while (proceed(...)) { reset_solution(sol); pb->num_solutions++; construct
CachedGraspLoop ==
  /\ pc = "cgrasp_loop"
  /\ IF proceed(cfg.runtime, cfg.max_iterations, elapsed, pb.num_solutions) # 0
     THEN /\ loc.rounds < MaxBatches
          /\ sol' = reset_solution(sol)
          /\ pb' = [pb EXCEPT !.num_solutions = pb.num_solutions + 1]
          /\ loc' = [loc EXCEPT !.rounds = loc.rounds + 1, !.ctor = "grasp",
                                !.target = "sol", !.ret = <<"cgrasp_query">>]
          /\ hist' = [hist EXCEPT !.constructed = hist.constructed + 1,
                                  !.query = InitHist.query]
          /\ pc' = "seed"
     ELSE /\ pc' = "done"
          /\ UNCHANGED <<pb, sol, loc, hist>>
  /\ UNCHANGED <<inst, cfg, cache, now>>

\* cost = calc_costs(sol); hits = cache.contains(*sol); if (hits) continue;
\* cache.add(*sol)
CachedGraspQuery ==
  /\ pc = "cgrasp_query"
  /\ \E ub \in UBOutcomes :
       LET s1 == calc_costs(sol)
           h == hash(s1, ub)
           r == cache_contains(cache, h)
       IN /\ sol' = s1
          /\ hist' = [hist EXCEPT
                        !.query = [hist.query EXCEPT
                                     !.queried = TRUE, !.known = h \in DOMAIN cache,
                                     !.added = r.ret = 0,
                                     !.fits = hash_fits(s1.cost_cache, inst.num_nodes),
                                     !.at = elapsed, !.h = h],
                        !.known_hits = hist.known_hits
                                         + (IF h \in DOMAIN cache THEN 1 ELSE 0),
                        !.over_hits = hist.over_hits
                                         + (IF r.ret > MaxHits THEN 1 ELSE 0)]
          /\ loc' = [loc EXCEPT !.cost = s1.cost_cache, !.hits = r.ret]
          /\ cache' = IF r.ret # 0 THEN r.m_cache ELSE cache_add(r.m_cache, h)
          /\ pc' = IF r.ret # 0 THEN "cgrasp_loop" ELSE "cgrasp_ls"
  /\ UNCHANGED <<inst, cfg, pb, now>>

CachedGraspLs ==
  /\ pc = "cgrasp_ls"
  /\ LET x == do_ls(ls_context(sol, pb.tl))
     IN /\ sol' = calc_costs(x.s)
        /\ loc' = [loc EXCEPT !.cost = calc_costs(x.s).cost_cache]
        /\ hist' = [hist EXCEPT !.ls = x.log, !.ls_pre = measure(sol),
                                !.ls_post = measure(x.s),
                                !.query.ls = TRUE]
  /\ pc' = "cgrasp_compare"
  /\ UNCHANGED <<inst, cfg, pb, cache, now>>

CachedGraspCompare ==
  /\ pc = "cgrasp_compare"
  /\ IF loc.cost < loc.best_cost
     THEN /\ pb' = [pb EXCEPT !.sol = [sol EXCEPT !.time = elapsed]]
          /\ sol' = pb.sol
     ELSE UNCHANGED <<pb, sol>>
  /\ loc' = [loc EXCEPT !.best_cost = fmin(loc.cost, loc.best_cost)]
  /\ hist' = [hist EXCEPT !.best = fmin(hist.best, loc.cost), !.query.compared = TRUE]
  /\ pc' = "cgrasp_loop"
  /\ UNCHANGED <<inst, cfg, cache, now>>

(***************************************************************************)
(* Tabu search (tabu_search.c, solve_ts)                                   *)
(***************************************************************************)
\* after ts_construct_routes: best_cost, the working clone
TsInit ==
  /\ pc = "ts_init"
  /\ pb' = [pb EXCEPT !.sol = calc_costs(pb.sol)]
  /\ sol' = clone_solution(calc_costs(pb.sol))
  /\ loc' = [loc EXCEPT !.state = REDUCE_TRUCKS,
                        !.best_cost = calc_costs(pb.sol).cost_cache]
  /\ hist' = [hist EXCEPT !.best = calc_costs(pb.sol).cost_cache]
  /\ pc' = "ts_move"
  /\ UNCHANGED <<inst, cfg, cache, now>>

\* the state the iteration runs in: REDUCE_WORKERS past half of a budget
ts_state ==
  IF (cfg.max_iterations # 0 /\ pb.tl.iteration * 2 > cfg.max_iterations)
     \/ (cfg.runtime # 0 /\ elapsed * 2 > cfg.runtime)
  THEN REDUCE_WORKERS
  ELSE loc.state

\* the history of the moves: for the nodes first..last that the move m took
\* off their route in s, the counter value the move was applied at
tabu_written(h, s, m, tl0, tl1) ==
  [k \in DOMAIN h |-> [r \in DOMAIN h[k] |->
     IF /\ tl1.iteration # tl0.iteration
        /\ r = s.routes[m.source].id
        /\ \E p \in m.first..m.last : s.routes[m.source].nodes[p].id = k
     THEN tl1.iteration
     ELSE h[k][r]]]

\* the mutated iteration: workers_cache is not reduced by delta_workers
TsMove_keeping_workers_cache ==
  /\ pc = "ts_move"
  /\ LET u == move_best_pairs(move_scan(ls_context(sol, pb.tl),
                                        init_move(NON_IMPROVING)),
                              ts_state, sol.trucks, sol.trucks - 1)
         s1 == [u.s EXCEPT !.workers_cache = sol.workers_cache,
                           !.dist_cache = sol.dist_cache - u.m.delta_dist]
         x == perform_move([s |-> s1, tl |-> u.tl, log |-> <<>>], u.m)
     IN /\ sol' = [x.s EXCEPT !.cost_cache =
                     calc_cost(x.s.trucks, x.s.workers_cache, x.s.dist_cache)]
        /\ pb' = [pb EXCEPT !.tl = x.tl]
        /\ loc' = [loc EXCEPT !.state = ts_state, !.updated = u.updated]
        /\ hist' = [hist EXCEPT !.tabu = tabu_written(hist.tabu, s1, u.m, pb.tl, x.tl),
                                !.steps = x.log]
  /\ pc' = "ts_accept"
  /\ UNCHANGED <<inst, cfg, cache, now>>

\* one iteration of the do loop up to the new cost: select the best move
\* over all pairs of routes, update the caches, perform the move
TsMove ==
  /\ pc = "ts_move"
  /\ LET u == move_best_pairs(move_scan(ls_context(sol, pb.tl),
                                        init_move(NON_IMPROVING)),
                              ts_state, sol.trucks, sol.trucks - 1)
         s1 == [u.s EXCEPT !.workers_cache = sol.workers_cache - u.m.delta_workers,
                           !.dist_cache = sol.dist_cache - u.m.delta_dist]
         x == perform_move([s |-> s1, tl |-> u.tl, log |-> <<>>], u.m)
     IN /\ sol' = [x.s EXCEPT !.cost_cache =
                     calc_cost(x.s.trucks, x.s.workers_cache, x.s.dist_cache)]
        /\ pb' = [pb EXCEPT !.tl = x.tl]
        /\ loc' = [loc EXCEPT !.state = ts_state, !.updated = u.updated]
        /\ hist' = [hist EXCEPT !.tabu = tabu_written(hist.tabu, s1, u.m, pb.tl, x.tl),
                                !.steps = x.log]
  /\ pc' = "ts_accept"
  /\ UNCHANGED <<inst, cfg, cache, now>>

\* if (sol->cost_cache < best_cost) pb->sol = clone_solution(sol)
TsAccept ==
  /\ pc = "ts_accept"
  /\ IF sol.cost_cache < loc.best_cost
     THEN /\ sol' = [sol EXCEPT !.time = elapsed]
          /\ pb' = [pb EXCEPT !.sol = clone_solution([sol EXCEPT !.time = elapsed])]
     ELSE UNCHANGED <<pb, sol>>
  /\ loc' = [loc EXCEPT !.best_cost = fmin(sol.cost_cache, loc.best_cost)]
  /\ hist' = [hist EXCEPT !.best = fmin(hist.best, sol.cost_cache)]
  /\ pc' = "ts_proceed"
  /\ UNCHANGED <<inst, cfg, cache, now>>

\* while (updated && proceed(pb, pb->tl->iteration))
TsProceed ==
  /\ pc = "ts_proceed"
  /\ IF loc.updated # 0
        /\ proceed(cfg.runtime, cfg.max_iterations, elapsed, pb.tl.iteration) # 0
     THEN /\ loc.rounds < MaxBatches
          /\ loc' = [loc EXCEPT !.rounds = loc.rounds + 1]
          /\ pc' = "ts_move"
     ELSE /\ pc' = "done"
          /\ UNCHANGED loc
  /\ UNCHANGED <<inst, cfg, pb, sol, cache, now, hist>>

(***************************************************************************)
(* VNS (vns.c, solve_vns)                                                  *)
(***************************************************************************)
\* pb->sol = do_ls(pb->sol); best_cost = cost; sol = clone_solution(pb->sol)
VnsInit ==
  /\ pc = "vns_init"
  /\ LET x == do_ls(ls_context(pb.sol, pb.tl))
     IN /\ pb' = [pb EXCEPT !.sol = calc_costs(x.s)]
        /\ sol' = clone_solution(calc_costs(x.s))
        /\ loc' = [loc EXCEPT !.cost = calc_costs(x.s).cost_cache,
                              !.best_cost = calc_costs(x.s).cost_cache]
        /\ hist' = [hist EXCEPT !.ls = x.log, !.ls_pre = measure(pb.sol),
                                !.ls_post = measure(x.s),
                                !.best = calc_costs(x.s).cost_cache]
  /\ pc' = "vns_loop"
  /\ UNCHANGED <<inst, cfg, cache, now>>

\* while (proceed(...)): shake_solution starts by giving every route
\* max_workers workers
VnsLoop ==
  /\ pc = "vns_loop"
  /\ IF proceed(cfg.runtime, cfg.max_iterations, elapsed, pb.num_solutions) # 0
     THEN /\ loc.rounds < MaxBatches
          /\ loc' = [loc EXCEPT !.rounds = loc.rounds + 1]
          /\ sol' = [sol EXCEPT !.routes = [i \in 1..sol.trucks |->
                       [sol.routes[i] EXCEPT !.workers = cfg.max_workers]]]
          /\ pc' = "vns_shake"
     ELSE /\ pc' = "done"
          /\ UNCHANGED <<sol, loc>>
  /\ UNCHANGED <<inst, cfg, pb, cache, now, hist>>

\* shake_solution: a route is drawn and distributed; the draw is repeated
\* while no node could be moved
VnsShake ==
  /\ pc = "vns_shake"
  /\ \E route_index \in 1..sol.trucks :
       /\ sol' = distribute_nodes(sol, route_index).s
       /\ pc' = IF distribute_nodes(sol, route_index).moved # 0 THEN "vns_improve"
                ELSE "vns_shake"
  /\ UNCHANGED <<inst, cfg, pb, loc, cache, now, hist>>

\* improve_solution(sol); cost = calc_costs(sol)
VnsImprove ==
  /\ pc = "vns_improve"
  /\ LET x == improve_solution(ls_context(sol, pb.tl))
     IN /\ sol' = calc_costs(x.s)
        /\ loc' = [loc EXCEPT !.cost = calc_costs(x.s).cost_cache]
        /\ hist' = [hist EXCEPT !.steps = x.log]
  /\ pc' = "vns_compare"
  /\ UNCHANGED <<inst, cfg, pb, cache, now>>

\* if (cost < best_cost) pb->sol = clone_solution(sol); pb->num_solutions++
VnsCompare ==
  /\ pc = "vns_compare"
  /\ IF loc.cost < loc.best_cost
     THEN /\ sol' = [sol EXCEPT !.time = elapsed]
          /\ pb' = [pb EXCEPT !.sol = clone_solution([sol EXCEPT !.time = elapsed]),
                              !.num_solutions = pb.num_solutions + 1]
     ELSE /\ pb' = [pb EXCEPT !.num_solutions = pb.num_solutions + 1]
          /\ UNCHANGED sol
  /\ loc' = [loc EXCEPT !.best_cost = fmin(loc.cost, loc.best_cost)]
  /\ hist' = [hist EXCEPT !.best = fmin(hist.best, loc.cost)]
  /\ pc' = "vns_loop"
  /\ UNCHANGED <<inst, cfg, cache, now>>

Next ==
  \/ Tick \/ Solve \/ Seed \/ Fill \/ NoneLs
  \/ AcoLoop \/ AcoAnt \/ AcoLs \/ AcoCompare
  \/ CachedAcoLoop \/ CachedAcoAnt \/ CachedAcoQuery \/ CachedAcoLs \/ CachedAcoCompare
  \/ ParallelInit \/ ParallelSeed \/ ParallelFill
  \/ GraspLoop \/ GraspLs \/ GraspCompare
  \/ CachedGraspLoop \/ CachedGraspQuery \/ CachedGraspLs \/ CachedGraspCompare
  \/ TsInit \/ TsMove \/ TsAccept \/ TsProceed
  \/ VnsInit \/ VnsLoop \/ VnsShake \/ VnsImprove \/ VnsCompare

Spec == Init /\ [][Next]_vars

(***************************************************************************)
(* The functions of the drivers on their own: proceed and the cache are    *)
(* called with arguments drawn from small ranges                           *)
(***************************************************************************)
MaxBudget == 2
MaxCount == 2

\* cost_cache values of the solutions handed to the cache (1.0, 1.0001, 2.6)
UnitCosts == {CostUnit, CostUnit + 1, 2 * CostUnit + 6000}

InitUnit ==
  /\ cfg = BaseConfig
  /\ inst = get_problem(RawC, BaseConfig)
  /\ pb = [sol |-> new_solution, num_solutions |-> 0, start_time |-> 0,
           pheromone |-> <<>>, state |-> REDUCE_TRUCKS, attempts |-> 0,
           tl |-> new_tabulist(BaseConfig, inst.num_nodes)]
  /\ sol = new_solution
  /\ loc = InitLoc
  /\ cache = <<>>
  /\ pc = "unit"
  /\ now = 0
  /\ hist = InitHist

\* proceed(pb, iteration) under a configuration and at a time of the clock
CallProceed ==
  /\ pc = "unit"
  /\ hist.unit.op \in {"none", "proceed"}
  /\ \E runtime \in 0..MaxBudget, max_iterations \in 0..MaxBudget,
        t \in 0..(MaxBudget + 1), iteration \in 0..(MaxBudget + 1) :
       /\ cfg' = [cfg EXCEPT !.runtime = runtime, !.max_iterations = max_iterations]
       /\ now' = t
       /\ pb' = [pb EXCEPT !.num_solutions = iteration]
       /\ hist' = [hist EXCEPT !.unit =
                     [op |-> "proceed",
                      ret |-> proceed(runtime, max_iterations, t - pb.start_time, iteration)]]
  /\ UNCHANGED <<inst, sol, loc, cache, pc>>

\* a solution with the given cost is handed to cache.add
CacheAdd ==
  /\ pc = "unit"
  /\ hist.unit.op # "proceed"
  /\ \E c \in UnitCosts :
       LET s == [sol EXCEPT !.cost_cache = c]
           h == hash(s, "wrap")
       IN /\ sol' = s
          /\ cache' = cache_add(cache, h)
          /\ hist' = [hist EXCEPT !.unit = [op |-> "add", h |-> h, before |-> cache,
                                            ret |-> 0],
                                  !.added = hist.added \cup {h}]
  /\ UNCHANGED <<inst, cfg, pb, loc, pc, now>>

\* a solution with the given cost is handed to cache.contains
CacheContains ==
  /\ pc = "unit"
  /\ hist.unit.op # "proceed"
  /\ \E c \in UnitCosts :
       LET s == [sol EXCEPT !.cost_cache = c]
           h == hash(s, "wrap")
           r == cache_contains(cache, h)
       IN /\ r.ret <= MaxCount
          /\ sol' = s
          /\ cache' = r.m_cache
          /\ hist' = [hist EXCEPT !.unit = [op |-> "contains", h |-> h, before |-> cache,
                                            ret |-> r.ret]]
  /\ UNCHANGED <<inst, cfg, pb, loc, pc, now>>

NextUnit == CallProceed \/ CacheAdd \/ CacheContains

SpecUnit == InitUnit /\ [][NextUnit]_vars

\* the number of insertions offered to one list and their attractiveness
MaxOffers == 4
OfferedAttr == 1..3

\* init_insertion_list(il, max_size) for a bounded or an unbounded list
ListInit ==
  /\ pc = "unit"
  /\ hist.unit.op \in {"none", "init_list", "update_list"}
  /\ \E max_size \in 0..3 :
       /\ loc' = [loc EXCEPT !.insertions = init_insertion_list(max_size)]
       /\ hist' = [hist EXCEPT !.unit = [op |-> "init_list", offered |-> <<>>,
                                         rcl_size |-> max_size]]
  /\ UNCHANGED <<inst, cfg, pb, sol, cache, pc, now>>

\* update_insertion_list(il, ins) with a new insertion of any attractiveness
ListUpdate ==
  /\ pc = "unit"
  /\ hist.unit.op \in {"init_list", "update_list"}
  /\ Len(hist.unit.offered) < MaxOffers
  /\ \E a \in OfferedAttr :
       LET ins == [target |-> 1, node |-> Len(hist.unit.offered) + 1, after |-> 1,
                   cost |-> Frac(a, 1), attractiveness |-> a]
       IN /\ loc' = [loc EXCEPT !.insertions = update_insertion_list(loc.insertions, ins)]
          /\ hist' = [hist EXCEPT !.unit.op = "update_list",
                                  !.unit.offered = Append(hist.unit.offered, ins)]
  /\ UNCHANGED <<inst, cfg, pb, sol, cache, pc, now>>

NextList == ListInit \/ ListUpdate

\* the calls on one insertion list, from the state the driver functions start in
SpecList == InitUnit /\ [][NextList]_vars


(***************************************************************************)
(* Solutions as objects (solution.c, route.c, node.c).  The heap holds the *)
(* node, route and solution objects s_malloc returned, each kind by        *)
(* address (its position in the sequence); NULL is address 0.  A node      *)
(* carries its prev and next pointers, a route its nodes and tail          *)
(* pointers, a solution its array of route pointers and the head of its    *)
(* unrouted list.  free() adds the address to the set freed.               *)
(***************************************************************************)
NULL == 0

empty_heap == [node |-> <<>>, route |-> <<>>, solution |-> <<>>, freed |-> {}]

RECURSIVE link_nodes(_, _, _)
\* the nodes ns allocated as a doubly linked list behind the node prev
link_nodes(h, ns, prev) ==
  IF ns = <<>> THEN h
  ELSE With(Len(h.node) + 1, LAMBDA a :
         link_nodes([h EXCEPT !.node =
                       Append(IF prev = NULL THEN h.node
                              ELSE [h.node EXCEPT ![prev].next = a],
                              [id |-> Head(ns).id, aest |-> Head(ns).aest,
                               alst |-> Head(ns).alst,
                               aest_cache |-> Head(ns).aest_cache,
                               prev |-> prev, next |-> NULL])],
                    Tail(ns), a))

RECURSIVE build_routes(_, _, _)
\* the route objects of the routes rs, as new_route and add_nodes link them
build_routes(h, rs, ptrs) ==
  IF rs = <<>> THEN [h |-> h, ptrs |-> ptrs]
  ELSE With(link_nodes(h, Head(rs).nodes, NULL), LAMBDA h1 :
         build_routes([h1 EXCEPT !.route =
                         Append(h1.route,
                                [id |-> Head(rs).id, depot_id |-> Head(rs).depot_id,
                                 len |-> Head(rs).len, load |-> Head(rs).load,
                                 workers |-> Head(rs).workers,
                                 nodes |-> Len(h.node) + 1,
                                 tail |-> Len(h1.node)])],
                      Tail(rs), Append(ptrs, Len(h1.route) + 1)))

\* the objects new_solution, new_route and add_nodes have built for the
\* solution v; the route array has room for num_nodes pointers
build_solution(h, v) ==
  With(build_routes(h, v.routes, <<>>), LAMBDA b :
  With(link_nodes(b.h, v.unrouted, NULL), LAMBDA h1 :
    [h1 EXCEPT !.solution =
       Append(h1.solution,
              [trucks |-> v.trucks,
               routes |-> [i \in 1..inst.num_nodes |->
                             IF i <= Len(b.ptrs) THEN b.ptrs[i] ELSE NULL],
               unrouted |-> IF v.unrouted = <<>> THEN NULL ELSE Len(b.h.node) + 1,
               num_unrouted |-> v.num_unrouted, time |-> v.time,
               saturation_time |-> v.saturation_time,
               workers_cache |-> v.workers_cache, dist_cache |-> v.dist_cache,
               cost_cache |-> v.cost_cache])]))

RECURSIVE chain(_, _, _)
\* the addresses met from node n along the next pointers (at most fuel)
chain(h, n, fuel) ==
  IF n = NULL \/ fuel = 0 THEN <<>>
  ELSE <<n>> \o chain(h, h.node[n].next, fuel - 1)

\* no list of a solution is longer than this
MaxChain == 12

\* the list that starts at node n, as the sequence of its nodes
node_list(h, n) ==
  With(chain(h, n, MaxChain), LAMBDA c :
    [i \in 1..Len(c) |-> [id |-> h.node[c[i]].id, aest |-> h.node[c[i]].aest,
                          alst |-> h.node[c[i]].alst,
                          aest_cache |-> h.node[c[i]].aest_cache]])

\* the solution at address s read along its pointers
view(h, s) ==
  [trucks |-> h.solution[s].trucks,
   routes |-> [i \in 1..h.solution[s].trucks |->
      With(h.route[h.solution[s].routes[i]], LAMBDA r :
        [id |-> r.id, depot_id |-> r.depot_id, len |-> r.len, load |-> r.load,
         workers |-> r.workers, nodes |-> node_list(h, r.nodes)])],
   unrouted |-> node_list(h, h.solution[s].unrouted),
   num_unrouted |-> h.solution[s].num_unrouted, time |-> h.solution[s].time,
   saturation_time |-> h.solution[s].saturation_time,
   workers_cache |-> h.solution[s].workers_cache,
   dist_cache |-> h.solution[s].dist_cache,
   cost_cache |-> h.solution[s].cost_cache]

\* clone_node(node) on the heap: a new node with the fields copied, no
\* links and fresh caches; its address is Len(h.node) of the heap returned
clone_node_at(h, n) ==
  [h EXCEPT !.node = Append(h.node, [h.node[n] EXCEPT !.prev = NULL, !.next = NULL,
                                                       !.aest_cache = UNSET])]

RECURSIVE clone_list(_, _, _)
\* while (n) { tail->next = clone_node(n); tail->next->prev = tail; ... }
clone_list(h, n, tail) ==
  IF n = NULL THEN [h |-> h, tail |-> tail]
  ELSE With(clone_node_at(h, n), LAMBDA h1 :
         clone_list([h1 EXCEPT !.node[tail].next = Len(h1.node),
                               !.node[Len(h1.node)].prev = tail],
                    h.node[n].next, Len(h1.node)))

\* the mutated clone_route: the clone points at the nodes of the original
clone_route_at_sharing(h, r) ==
  [h EXCEPT !.route = Append(h.route, h.route[r])]

\* clone_route(route): the new route is the last of the heap returned
clone_route_at(h, r) ==
  With(clone_node_at(h, h.route[r].nodes), LAMBDA h1 :
  With(clone_list(h1, h.node[h.route[r].nodes].next, Len(h1.node)), LAMBDA c :
    [c.h EXCEPT !.route = Append(c.h.route,
                                 [h.route[r] EXCEPT !.nodes = Len(h1.node),
                                                    !.tail = c.tail])]))

RECURSIVE clone_routes(_, _, _, _)
\* for (i = 0; i < clone->trucks; ++i) clone->routes[i] = clone_route(...)
clone_routes(h, s, i, ptrs) ==
  IF i > h.solution[s].trucks THEN [h |-> h, ptrs |-> ptrs]
  ELSE With(clone_route_at(h, h.solution[s].routes[i]), LAMBDA h1 :
         clone_routes(h1, s, i + 1, Append(ptrs, Len(h1.route))))

\* clone_solution(sol): the clone is the last solution of the heap returned
clone_solution_at(h, s) ==
  With(clone_routes(h, s, 1, <<>>), LAMBDA b :
  With(IF h.solution[s].unrouted = NULL THEN [h |-> b.h, head |-> NULL]
       ELSE With(clone_node_at(b.h, h.solution[s].unrouted), LAMBDA h1 :
              [h |-> clone_list(h1, h.node[h.solution[s].unrouted].next,
                                Len(h1.node)).h,
               head |-> Len(h1.node)]),
       LAMBDA u :
    [u.h EXCEPT !.solution =
       Append(u.h.solution,
              [h.solution[s] EXCEPT
                 !.routes = [i \in 1..inst.num_nodes |->
                               IF i <= Len(b.ptrs) THEN b.ptrs[i] ELSE NULL],
                 !.unrouted = u.head])]))

\* free_route(route): every node of the list, then the route
free_route_at(h, r) ==
  [h EXCEPT !.freed = h.freed
       \cup {<<"node", a>> : a \in Range(chain(h, h.route[r].nodes, MaxChain))}
       \cup {<<"node", h.route[r].tail>>, <<"route", r>>}]

\* the mutated step of reset_solution: the old head of the unrouted list
\* is not linked back to the nodes prepended
reset_route_at_forward_only(h, s, i) ==
  With(h.route[h.solution[s].routes[i]], LAMBDA r :
    IF r.len = EMPTY
    THEN [free_route_at(h, h.solution[s].routes[i])
            EXCEPT !.solution[s].routes[i] = NULL]
    ELSE With([h EXCEPT !.node[h.node[r.tail].prev].next = h.solution[s].unrouted],
              LAMBDA h1 :
         With([h1 EXCEPT !.solution[s].unrouted = h1.node[r.nodes].next],
              LAMBDA h3 :
         With([h3 EXCEPT !.node[h3.solution[s].unrouted].prev = NULL,
                         !.node[r.nodes].next = r.tail,
                         !.node[r.tail].prev = r.nodes],
              LAMBDA h4 :
           [free_route_at(h4, h.solution[s].routes[i])
              EXCEPT !.solution[s].routes[i] = NULL]))))

\* the body of the for loop of reset_solution for the route at index i
reset_route_at(h, s, i) ==
  With(h.route[h.solution[s].routes[i]], LAMBDA r :
    IF r.len = EMPTY
    THEN [free_route_at(h, h.solution[s].routes[i])
            EXCEPT !.solution[s].routes[i] = NULL]
    ELSE With([h EXCEPT !.node[h.node[r.tail].prev].next = h.solution[s].unrouted],
              LAMBDA h1 :
         With(IF h.solution[s].unrouted # NULL
              THEN [h1 EXCEPT !.node[h.solution[s].unrouted].prev = h.node[r.tail].prev]
              ELSE h1,
              LAMBDA h2 :
         With([h2 EXCEPT !.solution[s].unrouted = h2.node[r.nodes].next],
              LAMBDA h3 :
         With([h3 EXCEPT !.node[h3.solution[s].unrouted].prev = NULL,
                         !.node[r.nodes].next = r.tail,
                         !.node[r.tail].prev = r.nodes],
              LAMBDA h4 :
           [free_route_at(h4, h.solution[s].routes[i])
              EXCEPT !.solution[s].routes[i] = NULL])))))

RECURSIVE reset_routes(_, _, _)
reset_routes(h, s, i) ==
  IF i > h.solution[s].trucks THEN h
  ELSE reset_routes(reset_route_at(h, s, i), s, i + 1)

\* reset_solution(sol, num_nodes)
reset_solution_at(h, s) ==
  [reset_routes(h, s, 1) EXCEPT
     !.solution[s].num_unrouted = inst.num_nodes - 1,
     !.solution[s].trucks = 0, !.solution[s].workers_cache = 0,
     !.solution[s].dist_cache = 0, !.solution[s].time = 0,
     !.solution[s].saturation_time = 0]

RECURSIVE free_routes(_, _, _)
free_routes(h, s, i) ==
  IF i > h.solution[s].trucks THEN h
  ELSE free_routes([free_route_at(h, h.solution[s].routes[i])
                      EXCEPT !.solution[s].routes[i] = NULL], s, i + 1)

\* free_solution(sol): the routes, the unrouted nodes (each unlinked by
\* remove_unrouted and freed), then the solution
free_solution_at(h, s) ==
  With(free_routes(h, s, 1), LAMBDA h1 :
  With(chain(h1, h1.solution[s].unrouted, MaxChain), LAMBDA c :
    [h1 EXCEPT !.freed = h1.freed \cup {<<"node", a>> : a \in Range(c)}
                           \cup {<<"solution", s>>},
               !.node = [a \in DOMAIN h1.node |->
                           IF a \in Range(c) THEN [h1.node[a] EXCEPT !.prev = NULL]
                           ELSE h1.node[a]],
               !.solution[s].unrouted = NULL,
               !.solution[s].num_unrouted = h1.solution[s].num_unrouted - Len(c)]))

\* remove_route(sol, route_idx) on an empty route
remove_route_at(h, s, idx) ==
  With(free_route_at(h, h.solution[s].routes[idx]), LAMBDA h1 :
    [h1 EXCEPT !.solution[s].trucks = h.solution[s].trucks - 1,
               !.solution[s].routes =
                  [i \in 1..inst.num_nodes |->
                     IF i < idx THEN h.solution[s].routes[i]
                     ELSE IF i < h.solution[s].trucks THEN h.solution[s].routes[i + 1]
                     ELSE IF i = h.solution[s].trucks THEN NULL
                     ELSE h.solution[s].routes[i]]])

\* remove_nodes_noupdate(r, n, n) for a single node n
remove_nodes_noupdate_at(h, r, n) ==
  [h EXCEPT !.route[r].load = h.route[r].load - inst.demand[h.node[n].id],
            !.route[r].len = h.route[r].len - 1,
            !.node = [a \in DOMAIN h.node |->
                        IF a = n THEN [h.node[a] EXCEPT !.prev = NULL, !.next = NULL]
                        ELSE IF a = h.node[n].prev
                        THEN [h.node[a] EXCEPT !.next = h.node[n].next]
                        ELSE IF a = h.node[n].next
                        THEN [h.node[a] EXCEPT !.prev = h.node[n].prev]
                        ELSE h.node[a]]]

\* add_nodes_noupdate(r, n, n, after) for a single node n
add_nodes_noupdate_at(h, r, n, after) ==
  [h EXCEPT !.route[r].load = h.route[r].load + inst.demand[h.node[n].id],
            !.route[r].len = h.route[r].len + 1,
            !.node = [a \in DOMAIN h.node |->
                        IF a = n THEN [h.node[a] EXCEPT !.prev = after,
                                                        !.next = h.node[after].next]
                        ELSE IF a = h.node[after].next
                        THEN [h.node[a] EXCEPT !.prev = n]
                        ELSE IF a = after THEN [h.node[a] EXCEPT !.next = n]
                        ELSE h.node[a]]]

\* the route sizes a construction is stopped after: complete solutions,
\* solutions with customers left unrouted, and the new solution
Plans == {<<>>, <<1>>, <<2>>, <<1, 1>>, <<1, 2>>, <<2, 1>>, <<1, 1, 1>>}

\* the orders in which the customers are routed
Orders ==
  {p \in [1..(inst.num_nodes - 1) -> 1..(inst.num_nodes - 1)] :
     \A i, j \in DOMAIN p : p[i] = p[j] => i = j}

RECURSIVE planned(_, _, _)
\* the solution built from v by opening a route per entry of sizes, with the
\* customers in the order perm: remove_unrouted and new_route for the seed,
\* then remove_unrouted and add_nodes for a second customer
planned(v, perm, sizes) ==
  IF sizes = <<>> THEN v
  ELSE With(new_route(remove_unrouted(v, unrouted_pos(v, perm[1])),
                      v.unrouted[unrouted_pos(v, perm[1])], cfg.max_workers),
            LAMBDA v1 :
         IF Head(sizes) = 1 THEN planned(v1, Tail(perm), Tail(sizes))
         ELSE planned(insert(v1, [node |-> perm[2], target |-> v1.trucks, after |-> 2]),
                      Tail(Tail(perm)), Tail(sizes)))

\* number of calls made on the solutions of one heap
MaxOps == 3

\* before a solution exists: loc holds the heap, the pointers sol and
\* clone, and which of them point at a solution that is not freed
InitHeap ==
  /\ cfg = BaseConfig
  /\ inst = get_problem(RawA, BaseConfig)
  /\ pb = [sol |-> new_solution, num_solutions |-> 0, start_time |-> 0,
           pheromone |-> <<>>, state |-> REDUCE_TRUCKS, attempts |-> 0,
           tl |-> new_tabulist(BaseConfig, inst.num_nodes)]
  /\ sol = new_solution
  /\ loc = [heap |-> empty_heap, sol |-> NULL, clone |-> NULL, live |-> {}, ops |-> 0]
  /\ cache = <<>>
  /\ pc = "build"
  /\ now = 0
  /\ hist = InitHist

\* sol = new_solution(pb) and a construction stopped after some routes: the
\* solution is the first of the heap
HeapBuild ==
  /\ pc = "build"
  /\ \E perm \in Orders, sizes \in Plans :
       loc' = [loc EXCEPT !.heap = build_solution(empty_heap,
                                     calc_costs(planned(new_solution, perm, sizes))),
                          !.sol = 1, !.live = {"sol"}]
  /\ pc' = "heap"
  /\ UNCHANGED <<inst, cfg, pb, sol, cache, now, hist>>

\* the address held by the pointer named t
pointer(t) == IF t = "sol" THEN loc.sol ELSE loc.clone

\* the other pointer, and whether it points at a solution in use
other(t) == IF t = "sol" THEN "clone" ELSE "sol"

\* what a call on the pointer t records: the solution it was given and the
\* solution behind the other pointer, both as they were before the call
called(op, t) ==
  [op |-> op, on |-> t, before |-> view(loc.heap, pointer(t)),
   other |-> IF other(t) \in loc.live
             THEN <<view(loc.heap, pointer(other(t)))>> ELSE <<>>]

\* clone = clone_solution(sol)
HeapClone ==
  /\ pc = "heap"
  /\ loc.ops < MaxOps
  /\ "sol" \in loc.live
  /\ loc.clone = NULL
  /\ loc' = [loc EXCEPT !.heap = clone_solution_at(loc.heap, loc.sol),
                        !.clone = Len(loc.heap.solution) + 1,
                        !.live = loc.live \cup {"clone"},
                        !.ops = loc.ops + 1]
  /\ hist' = [hist EXCEPT !.unit = called("clone", "sol")]
  /\ UNCHANGED <<inst, cfg, pb, sol, cache, pc, now>>

\* reset_solution(t, num_nodes)
HeapReset ==
  /\ pc = "heap"
  /\ loc.ops < MaxOps
  /\ \E t \in loc.live :
       /\ loc' = [loc EXCEPT !.heap = reset_solution_at(loc.heap, pointer(t)),
                             !.ops = loc.ops + 1]
       /\ hist' = [hist EXCEPT !.unit = called("reset", t)]
  /\ UNCHANGED <<inst, cfg, pb, sol, cache, pc, now>>

\* the pointer writes of a move of the first customer of route i behind the
\* depot of route j: remove_nodes_noupdate, remove_route if the source is
\* left empty, add_nodes_noupdate
HeapMove ==
  /\ pc = "heap"
  /\ loc.ops < MaxOps
  /\ \E t \in loc.live :
       \E i, j \in 1..loc.heap.solution[pointer(t)].trucks :
         /\ i # j
         /\ LET h == loc.heap
                src == h.solution[pointer(t)].routes[i]
                tgt == h.solution[pointer(t)].routes[j]
                n == h.node[h.route[src].nodes].next
                h1 == remove_nodes_noupdate_at(h, src, n)
                h2 == IF h1.route[src].len = EMPTY
                      THEN remove_route_at(h1, pointer(t), i) ELSE h1
            IN loc' = [loc EXCEPT !.heap = add_nodes_noupdate_at(h2, tgt, n,
                                                                 h.route[tgt].nodes),
                                  !.ops = loc.ops + 1]
         /\ hist' = [hist EXCEPT !.unit = called("move", t)]
  /\ UNCHANGED <<inst, cfg, pb, sol, cache, pc, now>>

\* free_solution(t)
HeapFree ==
  /\ pc = "heap"
  /\ loc.ops < MaxOps
  /\ \E t \in loc.live :
       /\ loc' = [loc EXCEPT !.heap = free_solution_at(loc.heap, pointer(t)),
                             !.live = loc.live \ {t},
                             !.ops = loc.ops + 1]
       /\ hist' = [hist EXCEPT !.unit = called("free", t)]
  /\ UNCHANGED <<inst, cfg, pb, sol, cache, pc, now>>

NextHeap == HeapBuild \/ HeapClone \/ HeapReset \/ HeapMove \/ HeapFree

SpecHeap == InitHeap /\ [][NextHeap]_vars

(***************************************************************************)
(* Calls on the routes of a solution under construction (route.c, route.h, *)
(* local_search.c)                                                         *)
(***************************************************************************)
\* number of calls made on one solution
MaxCalls == 4

\* the instances and the values of max_workers of these runs
RouteInstances == {RawA, RawB, RawH}
RouteWorkers == {1, 3}

\* sol = new_solution(pb); loc counts the calls and tells whether the
\* solution is still under construction
InitRoute ==
  \E raw \in RouteInstances, w \in RouteWorkers :
    /\ cfg = [BaseConfig EXCEPT !.max_workers = w]
    /\ inst = get_problem(raw, [BaseConfig EXCEPT !.max_workers = w])
    /\ pb = [sol |-> new_solution, num_solutions |-> 0, start_time |-> 0,
             pheromone |-> <<>>, state |-> REDUCE_TRUCKS, attempts |-> 0,
             tl |-> new_tabulist(BaseConfig, inst.num_nodes)]
    /\ sol = new_solution
    /\ loc = [calls |-> 0, constructing |-> TRUE]
    /\ cache = <<>>
    /\ pc = "route"
    /\ now = 0
    /\ hist = InitHist

\* the call before this one: its name and the route it was made on
last_call == IF hist.unit.op = "none" THEN <<"none", 0>>
             ELSE <<hist.unit.op, hist.unit.on>>

\* the record of a call on route number i: the solution before it, the
\* verdict of its feasibility test, the routes the tested change gives
\* (whether it was made or not) and what reduce_service_workers returned
route_call(op, i, accepted, tried, reduced) ==
  [op |-> op, on |-> i, before |-> sol, accepted |-> accepted, tried |-> tried,
   reduced |-> reduced, prev |-> last_call]

\* remove_unrouted(sol, seed); new_route(sol, seed, workers) as the
\* constructions call it, for any unrouted seed.  Routes are opened while
\* the solution is constructed, before the local search works on it.
RouteNew ==
  /\ pc = "route"
  /\ loc.calls < MaxCalls
  /\ loc.constructing
  /\ \E k \in 1..Len(sol.unrouted) :
       /\ sol' = new_route(remove_unrouted(sol, k), sol.unrouted[k], cfg.max_workers)
       /\ hist' = [hist EXCEPT !.unit = [route_call("new_route", sol.trucks + 1, TRUE,
                                                    <<>>, FALSE)
                                           EXCEPT !.tried = <<sol.unrouted[k]>>]]
  /\ loc' = [loc EXCEPT !.calls = loc.calls + 1]
  /\ UNCHANGED <<inst, cfg, pb, cache, pc, now>>

\* the body of the loops of calc_best_insertion / get_best_insertion for one
\* position: after the capacity test, can_insert_one decides; an accepted
\* insertion is made with remove_unrouted and add_nodes
RouteInsert ==
  /\ pc = "route"
  /\ loc.calls < MaxCalls
  /\ \E k \in 1..Len(sol.unrouted), i \in 1..sol.trucks :
       \E after \in 1..(Len(sol.routes[i].nodes) - 1) :
         /\ ~ (inst.capacity < sol.routes[i].load + inst.demand[sol.unrouted[k].id])
         /\ With(can_insert_one(sol.routes[i], sol.unrouted[k], after), LAMBDA ok :
              /\ sol' = IF ok
                        THEN insert(sol, [node |-> sol.unrouted[k].id, target |-> i,
                                          after |-> after])
                        ELSE sol
              /\ hist' = [hist EXCEPT !.unit =
                            route_call("insert", i, ok,
                                       <<add_nodes(sol.routes[i], <<sol.unrouted[k]>>,
                                                   after)>>,
                                       FALSE)])
  /\ loc' = [loc EXCEPT !.calls = loc.calls + 1]
  /\ UNCHANGED <<inst, cfg, pb, cache, pc, now>>

\* the move of update_move for one run and one position: after the capacity
\* test, can_insert decides; an accepted move is made by perform_move
RouteMove ==
  /\ pc = "route"
  /\ loc.calls < MaxCalls
  /\ \E src, tgt \in 1..sol.trucks, len \in 1..cfg.max_move :
       /\ src # tgt
       /\ \E first \in 2..(Len(sol.routes[src].nodes) - len) :
          \E after \in 1..(Len(sol.routes[tgt].nodes) - 1) :
            /\ ~ (inst.capacity < sol.routes[tgt].load
                     + sum_demands(SubSeq(sol.routes[src].nodes, first, first + len - 1)))
            /\ With(can_insert(sol.routes[tgt],
                               SubSeq(sol.routes[src].nodes, first, first + len - 1),
                               after),
                    LAMBDA ci :
                 /\ sol' = IF ci.ok
                           THEN perform_move(
                                  ls_context([sol EXCEPT !.routes[src].nodes =
                                                SubSeq(sol.routes[src].nodes, 1, first - 1)
                                                  \o ci.ns
                                                  \o SubSeq(sol.routes[src].nodes,
                                                            first + len,
                                                            Len(sol.routes[src].nodes))],
                                             pb.tl),
                                  [source |-> src, target |-> tgt, first |-> first,
                                   last |-> first + len - 1, after |-> after,
                                   delta_dist |-> 0,
                                   delta_trucks |-> IF sol.routes[src].len = EMPTY + len
                                                    THEN 1 ELSE 0,
                                   delta_workers |-> 0,
                                   improving |-> IMPROVING]).s
                           ELSE sol
                 /\ hist' = [hist EXCEPT !.unit =
                               route_call("move", tgt, ci.ok,
                                          <<add_nodes(sol.routes[tgt], ci.ns, after)>>,
                                          FALSE)])
  /\ loc' = [loc EXCEPT !.calls = loc.calls + 1, !.constructing = FALSE]
  /\ UNCHANGED <<inst, cfg, pb, cache, pc, now>>

\* swap_node(r1, r2) on two routes of the solution
RouteSwap ==
  /\ pc = "route"
  /\ loc.calls < MaxCalls
  /\ \E i, j \in 1..sol.trucks :
       /\ i # j
       /\ With(swap_node(sol, i, j), LAMBDA res :
            /\ sol' = res.s
            /\ hist' = [hist EXCEPT !.unit =
                          route_call("swap", i, res.improved = 1,
                                     <<res.s.routes[i], res.s.routes[j]>>, FALSE)])
  /\ loc' = [loc EXCEPT !.calls = loc.calls + 1, !.constructing = FALSE]
  /\ UNCHANGED <<inst, cfg, pb, cache, pc, now>>

\* reduce_service_workers(route) on a route of the solution
RouteReduce ==
  /\ pc = "route"
  /\ loc.calls < MaxCalls
  /\ \E i \in 1..sol.trucks :
       With(reduce_service_workers(sol.routes[i]), LAMBDA res :
         /\ sol' = [sol EXCEPT !.routes[i] = res.r]
         /\ hist' = [hist EXCEPT !.unit =
                       route_call("reduce", i, TRUE, <<res.r>>, res.reduced)])
  /\ loc' = [loc EXCEPT !.calls = loc.calls + 1, !.constructing = FALSE]
  /\ UNCHANGED <<inst, cfg, pb, cache, pc, now>>

\* update_move(&m, source, target, state, len) on two routes of the
\* solution with a fresh move, not followed by perform_move; the solution
\* keeps the aest_cache fields the call wrote
RouteUpdateMove ==
  /\ pc = "route"
  /\ loc.calls < MaxCalls
  /\ \E src, tgt \in 1..sol.trucks, len \in 1..cfg.max_move,
        state \in {REDUCE_TRUCKS, REDUCE_WORKERS} :
       /\ src # tgt
       /\ With(update_move(move_scan(ls_context(sol, pb.tl), init_move(IMPROVING)),
                           src, tgt, state, len),
               LAMBDA u :
            /\ sol' = u.s
            /\ hist' = [hist EXCEPT !.unit =
                          [route_call("update_move", src, u.updated = 1, <<>>, FALSE)
                             EXCEPT !.tried = <<u.tl>>]])
  /\ loc' = [loc EXCEPT !.calls = loc.calls + 1, !.constructing = FALSE]
  /\ UNCHANGED <<inst, cfg, pb, cache, pc, now>>

\* is_feasible_with(route, workers) on a route of the solution
RouteFeasibleWith ==
  /\ pc = "route"
  /\ loc.calls < MaxCalls
  /\ \E i \in 1..sol.trucks, w \in 1..cfg.max_workers :
       With(is_feasible_with(sol.routes[i], w), LAMBDA res :
         /\ sol' = [sol EXCEPT !.routes[i] = res.r]
         /\ hist' = [hist EXCEPT !.unit =
                       [route_call("is_feasible_with", i, res.ok, <<>>, FALSE)
                          EXCEPT !.tried = <<pb.tl>>]])
  /\ loc' = [loc EXCEPT !.calls = loc.calls + 1, !.constructing = FALSE]
  /\ UNCHANGED <<inst, cfg, pb, cache, pc, now>>

\* distribute_nodes(sol, route_idx) on a route of the solution
RouteDistribute ==
  /\ pc = "route"
  /\ loc.calls < MaxCalls
  /\ \E i \in 1..sol.trucks :
       With(distribute_nodes(sol, i), LAMBDA res :
         /\ sol' = res.s
         /\ hist' = [hist EXCEPT !.unit =
                       [route_call("distribute", i, res.moved # 0, <<>>, FALSE)
                          EXCEPT !.reduced = res.s.trucks < sol.trucks]])
  /\ loc' = [loc EXCEPT !.calls = loc.calls + 1, !.constructing = FALSE]
  /\ UNCHANGED <<inst, cfg, pb, cache, pc, now>>

NextRoute ==
  \/ RouteNew \/ RouteInsert \/ RouteMove \/ RouteSwap \/ RouteReduce
  \/ RouteUpdateMove \/ RouteFeasibleWith \/ RouteDistribute

SpecRoute == InitRoute /\ [][NextRoute]_vars

(***************************************************************************)
(* Properties                                                              *)
(***************************************************************************)
\* C2: proceed(pb, iterations_done) returns true iff (runtime = 0 or
\* now - start_time < runtime) and (max_iterations = 0 or iterations_done <
\* max_iterations): false as soon as a budget is reached, and a budget of 0
\* never stops the run.
C2_ProceedIff ==
  hist.unit.op = "proceed" =>
    (hist.unit.ret # 0 <=>
       /\ (cfg.runtime = 0 \/ now - pb.start_time < cfg.runtime)
       /\ (cfg.max_iterations = 0 \/ pb.num_solutions < cfg.max_iterations))

\* proceed was called at the very moment the runtime is used up, with no
\* limit on the iterations, and has returned false
C2_Witness ==
  /\ hist.unit.op = "proceed"
  /\ cfg.runtime > 0 /\ cfg.max_iterations = 0
  /\ now - pb.start_time = cfg.runtime
  /\ pb.num_solutions > 0
  /\ hist.unit.ret = 0

\* C7: contains(s) returns 0 and leaves the cache as it is when hash(s) was
\* never added; otherwise it adds one to the entry's counter and returns the
\* new value; add(s) sets the entry's counter to 1 whatever it was; size() is
\* the number of distinct hashes added.
C7_CacheCounters ==
  /\ hist.unit.op = "contains" =>
       IF hist.unit.h \in DOMAIN hist.unit.before
       THEN /\ hist.unit.ret = hist.unit.before[hist.unit.h] + 1
            /\ cache = [hist.unit.before EXCEPT ![hist.unit.h] = hist.unit.ret]
       ELSE /\ hist.unit.ret = 0
            /\ cache = hist.unit.before
  /\ hist.unit.op = "add" =>
       /\ DOMAIN cache = DOMAIN hist.unit.before \cup {hist.unit.h}
       /\ cache[hist.unit.h] = 1
       /\ \A k \in DOMAIN hist.unit.before \ {hist.unit.h} : cache[k] = hist.unit.before[k]
  /\ hist.unit.op \in {"add", "contains"} =>
       /\ DOMAIN cache = hist.added
       /\ cache_size(cache) = Cardinality(hist.added)

\* add has overwritten a counter of more than 1 while the cache held a
\* second hash
C7_Witness ==
  /\ hist.unit.op = "add"
  /\ hist.unit.h \in DOMAIN hist.unit.before
  /\ hist.unit.before[hist.unit.h] > 1
  /\ cache_size(cache) = 2

\* a run of solve_aco limited by the number of solutions alone
aco_by_iterations ==
  cfg.metaheuristic = "aco" /\ cfg.runtime = 0 /\ cfg.max_iterations > 0

\* max_iterations rounded up to whole batches of ants solutions
whole_batches == ((cfg.max_iterations + cfg.ants - 1) \div cfg.ants) * cfg.ants

\* C3 as stated: with runtime = 0 and max_iterations = N > 0 the number of
\* ant solutions solve_aco has constructed never exceeds N.
C3_AtMostN == aco_by_iterations => hist.constructed <= cfg.max_iterations

\* C3, amended: with runtime = 0 and max_iterations = N > 0 solve_aco leaves
\* its loop after ceil(N / ants) batches, and the number of ant solutions it
\* has constructed when it stops is N rounded up to whole batches of ants
\* solutions (less than N + ants), as the budget is tested between batches only.
C3_WholeBatches ==
  aco_by_iterations =>
    /\ hist.constructed <= whole_batches
    /\ whole_batches < cfg.max_iterations + cfg.ants
    /\ loc.rounds * cfg.ants <= whole_batches
    /\ (pc = "done" => /\ hist.constructed = whole_batches
                       /\ pb.num_solutions = whole_batches)

\* solve_aco has stopped after two batches of two ants with a budget of three
C3_Witness ==
  /\ aco_by_iterations /\ pc = "done"
  /\ cfg.ants = 2 /\ cfg.max_iterations = 3
  /\ hist.constructed = 4

\* a route of customer k alone, with the largest crew
route_of_its_own(k) ==
  [id |-> 0, workers |-> cfg.max_workers, load |-> inst.demand[k], len |-> ONE_CUSTOMER,
   nodes |-> <<new_depot, Node(k), new_depot>>]

\* the places (route, position) at which customer k is served in s
served(s, k) ==
  {<<i, p>> \in (1..s.trucks) \X (1..inst.num_nodes + 1) :
     /\ p > 1 /\ p < Len(s.routes[i].nodes)
     /\ s.routes[i].nodes[p].id = k}

\* what assert_feasibility demands of s
feasible_solution(s) ==
  /\ \A k \in 1..(inst.num_nodes - 1) : Cardinality(served(s, k)) = 1
  /\ \A i \in 1..s.trucks : is_feasible(s.routes[i])

\* C1: after solve() has returned, whatever the metaheuristic and with local
\* search on or off, the incumbent pb->sol holds every customer exactly once
\* across its routes and each of its routes passes is_feasible, provided every
\* customer is feasible on a route of its own.
C1_FinalFeasible ==
  (pc = "done" /\ \A k \in 1..(inst.num_nodes - 1) : is_feasible(route_of_its_own(k)))
    => feasible_solution(pb.sol)

\* the cost of s computed from its routes
cost_of(s) == calc_cost(s.trucks, calc_workers(s), calc_dist(s))

\* s is a solution: it has routes and nothing is left unrouted
complete(s) == s.trucks > 0 /\ Len(s.unrouted) = 0

\* C4: in every driver the incumbent pb->sol is replaced only by a solution of
\* strictly lower cost than the running best, so the cost of the incumbent
\* never increases during a run, and at termination it is the minimum cost
\* over the solutions the driver compared with it.
C4_IncumbentMonotone ==
  /\ [][(cfg.metaheuristic # "none" /\ complete(pb.sol) /\ complete(pb'.sol))
          => cost_of(pb'.sol) <= cost_of(pb.sol)]_vars
  /\ []((cfg.metaheuristic # "none" /\ pc = "done" /\ complete(pb.sol))
          => cost_of(pb.sol) = hist.best)

\* the lexicographic order on (trucks, workers, distance)
lex_lt(a, b) ==
  \/ a[1] < b[1]
  \/ a[1] = b[1] /\ a[2] < b[2]
  \/ a[1] = b[1] /\ a[2] = b[2] /\ a[3] < b[3]

\* C5: the solution do_ls returns is not worse than the one it was given in
\* the lexicographic order on (trucks, workers, distance): every step local
\* search applies (brute truck reduction, a move, a swap,
\* reduce_service_workers) removes a truck, or keeps the trucks and removes
\* workers, or keeps both and shortens the distance.
C5_LsMonotone ==
  /\ \A i \in DOMAIN hist.ls : lex_lt(hist.ls[i].post, hist.ls[i].pre)
  /\ hist.ls_post = hist.ls_pre \/ lex_lt(hist.ls_post, hist.ls_pre)
  /\ hist.ls # <<>> =>
       /\ hist.ls[1].pre = hist.ls_pre
       /\ hist.ls[Len(hist.ls)].post = hist.ls_post
       /\ \A i \in 1..(Len(hist.ls) - 1) : hist.ls[i].post = hist.ls[i + 1].pre

\* local search has emptied a route and then taken workers off a route, and
\* solve() has returned
C5_Witness ==
  /\ pc = "done"
  /\ \E i \in DOMAIN hist.ls : hist.ls[i].op = "brute"
  /\ \E i \in DOMAIN hist.ls : hist.ls[i].op = "reduce"

\* the moves of customer k alone onto the route with id r that s allows
candidate_moves(s, k, r) ==
  {[init_move(NON_IMPROVING) EXCEPT !.source = ip[1], !.first = ip[2], !.last = ip[2],
                                    !.target = i, !.after = 1] :
     ip \in served(s, k), i \in {j \in 1..s.trucks : s.routes[j].id = r}}

\* the candidates whose source is another route than the target
moves_back(s, k, r) == {m \in candidate_moves(s, k, r) : m.source # m.target}

\* C6: with the tabu list active, when a move applied at counter value t
\* (after the increment) takes node k off route s, every candidate move of k
\* onto route s is tabu while the counter is in t .. t + tabutime - 1, that is
\* for the next tabutime move selections, and is no longer tabu once the
\* counter reaches t + tabutime.
C6_TabuWindow ==
  cfg.metaheuristic = "ts" =>
    \A k \in 1..(inst.num_nodes - 1), r \in 0..(inst.num_nodes - 2) :
      hist.tabu[k][r] # 0 =>
        /\ hist.tabu[k][r] <= pb.tl.iteration
        /\ \A m \in moves_back(sol, k, r) :
             is_move_tabu(pb.tl, m, sol)
               <=> pb.tl.iteration < hist.tabu[k][r] + cfg.tabutime

\* the counter has just reached t + tabutime for a node that could go back
\* to the route it was taken off at t, after having been tabu
C6_Witness ==
  /\ cfg.metaheuristic = "ts" /\ cfg.tabutime > 1
  /\ \E k \in 1..(inst.num_nodes - 1), r \in 0..(inst.num_nodes - 2) :
       /\ hist.tabu[k][r] # 0
       /\ pb.tl.iteration = hist.tabu[k][r] + cfg.tabutime
       /\ moves_back(sol, k, r) # {}
       /\ \A m \in moves_back(sol, k, r) : ~ is_move_tabu(pb.tl, m, sol)

cached_driver == cfg.metaheuristic \in {"cached_aco", "cached_grasp"}

\* C8: Cache.hash depends only on the solution's cost_cache (equal costs hash
\* equally, costs that differ by 1 or more hash differently, restoring the
\* cost restores the hash), and the product cost * (u64_max / num_nodes) is
\* representable in 64 bits for every solution the drivers hash.  Stated for
\* the solution of the last query: the product fits, the hash is the product,
\* and the hash of the cost raised by 1 is another one.
C8_HashOfCost ==
  (cached_driver /\ hist.query.queried) =>
    /\ hist.query.fits
    /\ hist.query.h = SubSeq(hash_product(loc.cost, inst.num_nodes), 1, 8)
         \/ hist.query.ls
    /\ \A ub \in UBOutcomes :
         hist.query.ls
           \/ hash([cost_cache |-> loc.cost + CostUnit], ub) # hist.query.h

\* C9: in solve_cached_aco and solve_cached_grasp local search is run on a
\* freshly constructed solution iff its hash was absent from the cache when
\* queried; the hash is then in the cache (with counter 1) before local search
\* starts; on a hit neither local search nor the comparison with the
\* incumbent is executed for that solution.
C9_LsIffAbsent ==
  cached_driver =>
    /\ hist.query.ls => (hist.query.queried /\ ~ hist.query.known)
    /\ hist.query.compared => hist.query.ls
    /\ (hist.query.queried /\ ~ hist.query.known)
         => (hist.query.ls \/ pc \in {"caco_ls", "cgrasp_ls"})
    /\ pc \in {"caco_ls", "cgrasp_ls"}
         => /\ hist.query.queried /\ ~ hist.query.known /\ ~ hist.query.ls
            /\ hist.query.h \in DOMAIN cache
            /\ cache[hist.query.h] = 1
    /\ (hist.query.queried /\ hist.query.known)
         => /\ ~ hist.query.ls /\ ~ hist.query.compared
            /\ pc \notin {"caco_ls", "cgrasp_ls", "caco_compare", "cgrasp_compare"}
    /\ pc \in {"caco_compare", "cgrasp_compare"} => hist.query.ls

\* a constructed solution has hit the cache after an earlier one missed it
\* and went through local search and the comparison
C9_Witness ==
  /\ cached_driver
  /\ hist.query.queried /\ hist.query.known
  /\ hist.ls_pre # <<0, 0, 0>>
  /\ hist.constructed >= 2

\* C10: in the cached drivers, the first time a freshly constructed solution
\* hits the cache, saturation_time is set to now - start_time.
C10_FirstHit ==
  (cached_driver /\ hist.query.known /\ hist.known_hits = 1)
    => pb.sol.saturation_time = hist.query.at

\* C10, as the code has it: solve_cached_aco writes saturation_time = now -
\* start_time into the incumbent at the first query whose returned counter
\* exceeds max_hits = 5 (the sixth time one hash is met) and at no other
\* query; solve_cached_grasp never writes it, so that it keeps the 0 of
\* new_solution.
C10_SaturationAtThreshold ==
  cached_driver =>
    /\ hist.over_hits = 0 => (pb.sol.saturation_time = 0 /\ ~ loc.saturized)
    /\ cfg.metaheuristic = "cached_grasp" => pb.sol.saturation_time = 0
    /\ (cfg.metaheuristic = "cached_aco" /\ hist.over_hits > 0) => loc.saturized
    /\ (cfg.metaheuristic = "cached_aco" /\ hist.query.known
          /\ loc.hits = MaxHits + 1 /\ hist.over_hits = 1)
         => pb.sol.saturation_time = hist.query.at

\* the sixth meeting of one hash, later than the start, has just been
\* recorded, after five hits that left saturation_time alone
C10_Witness ==
  /\ cfg.metaheuristic = "cached_aco"
  /\ hist.query.known /\ hist.over_hits = 1 /\ loc.hits = MaxHits + 1
  /\ hist.known_hits >= MaxHits
  /\ hist.query.at > 0
  /\ pb.sol.saturation_time = hist.query.at

(***************************************************************************)
(* Route and solution invariants                                           *)
(***************************************************************************)
\* the solutions seen at the points between operations: the working and the
\* incumbent solution, and the solution each step of the last local search,
\* improvement or tabu move left
solutions_between ==
  {sol, pb.sol} \cup {hist.ls[i].s : i \in DOMAIN hist.ls}
                \cup {hist.steps[i].s : i \in DOMAIN hist.steps}

\* the customers of a route: its nodes without the two depots
interior(r) == SubSeq(r.nodes, 2, Len(r.nodes) - 1)

\* C11: in every solution between operations every route's load is the sum
\* of the demands of its interior nodes, its len is 2 plus their number,
\* and its load is at most the capacity
C11_LoadAndLen ==
  \A s \in solutions_between : \A i \in 1..s.trucks :
    /\ s.routes[i].load = sum_demands(interior(s.routes[i]))
    /\ s.routes[i].len = 2 + Len(interior(s.routes[i]))
    /\ s.routes[i].load <= inst.capacity

\* a local search that swapped two nodes, leaving a route of several
\* customers, and took another step (a reduction of workers or trucks)
C11_Witness ==
  /\ \E i \in DOMAIN hist.ls : hist.ls[i].op # "swap"
  /\ \E i \in DOMAIN hist.ls :
       /\ hist.ls[i].op = "swap"
       /\ \E j \in 1..hist.ls[i].s.trucks : hist.ls[i].s.routes[j].len > ONE_CUSTOMER

\* the recurrences of the cached start times of route r under its worker
\* count, at every interior position
recurrences_hold(r) ==
  \A p \in 2..(Len(r.nodes) - 1) :
    /\ r.nodes[p].aest = max(inst.est[r.nodes[p].id],
                             r.nodes[p - 1].aest
                               + c_m(r.workers, r.nodes[p - 1].id, r.nodes[p].id))
    /\ r.nodes[p].alst = fmin(inst.lst[r.nodes[p].id],
                              r.nodes[p + 1].alst
                                - c_m(r.workers, r.nodes[p].id, r.nodes[p + 1].id))

\* shake_solution has set the worker counts and not yet distributed a route
inside_shake == pc = "vns_shake"

\* C12: between operations, in every driver, the aest and alst of every
\* interior node of every route satisfy the recurrences for the route's
\* current worker count
C12_Recurrences ==
  \A s \in (IF inside_shake THEN solutions_between \ {sol} ELSE solutions_between) :
    \A i \in 1..s.trucks : recurrences_hold(s.routes[i])

\* C13: every route of every solution has between 1 and max_workers
\* workers, also after reduce_service_workers and worker-saving moves
C13_WorkersInRange ==
  \A s \in solutions_between : \A i \in 1..s.trucks :
    /\ 1 <= s.routes[i].workers
    /\ s.routes[i].workers <= cfg.max_workers

\* a move that saved workers on a route that stayed and left a route with
\* the driver alone
C13_Witness ==
  /\ cfg.max_workers > 1
  /\ \E i \in DOMAIN hist.steps :
       /\ hist.steps[i].op = "move"
       /\ hist.steps[i].pre[1] = hist.steps[i].post[1]
       /\ hist.steps[i].pre[2] > hist.steps[i].post[2]
       /\ \E j \in 1..hist.steps[i].s.trucks : hist.steps[i].s.routes[j].workers = 1

\* the positions of the unrouted list that hold customer k
waiting(s, k) == {p \in 1..Len(s.unrouted) : s.unrouted[p].id = k}

\* C14: in every solution between operations every customer is linked in
\* exactly one place, as an interior node of one route or in the unrouted
\* list, and num_unrouted is the length of the unrouted list
C14_LinkedOnce ==
  \A s \in solutions_between :
    /\ \A k \in 1..(inst.num_nodes - 1) :
         Cardinality(served(s, k)) + Cardinality(waiting(s, k)) = 1
    /\ \A i \in 1..s.trucks : \A p \in 2..(Len(s.routes[i].nodes) - 1) :
         s.routes[i].nodes[p].id \in 1..(inst.num_nodes - 1)
    /\ s.num_unrouted = Len(s.unrouted)

\* a construction under way (customers both routed and unrouted) next to an
\* incumbent that a local search with moves completed
C14_Witness ==
  /\ sol.trucks > 0 /\ sol.num_unrouted > 0
  /\ \E i \in 1..sol.trucks : sol.routes[i].len > ONE_CUSTOMER
  /\ pb.sol.trucks > 0 /\ pb.sol.num_unrouted = 0
  /\ \E i \in DOMAIN hist.ls : hist.ls[i].op = "move"

(***************************************************************************)
(* Clone and reset on the heap                                             *)
(***************************************************************************)
\* the objects that belong to the solution at address s
objects(h, s) ==
  {<<"solution", s>>}
    \cup {<<"route", h.solution[s].routes[i]>> : i \in 1..h.solution[s].trucks}
    \cup {<<"node", a>> : a \in Range(chain(h, h.solution[s].unrouted, MaxChain))}
    \cup UNION {{<<"node", a>> : a \in
                    Range(chain(h, h.route[h.solution[s].routes[i]].nodes, MaxChain))} :
                i \in 1..h.solution[s].trucks}

\* the ids along a list of nodes
ids(ns) == [i \in 1..Len(ns) |-> ns[i].id]

\* C15: clone_solution(s) has the trucks, the routes in order (id, depot_id,
\* len, load, workers, node ids), the unrouted ids and the cost of s and
\* shares no object with it; whatever is then done through one of the two
\* pointers (moves, route removal, reset, free) leaves the solution behind
\* the other as it was
C15_CloneIndependent ==
  /\ hist.unit.op = "clone" =>
       LET o == hist.unit.before
           c == view(loc.heap, loc.clone)
       IN /\ c.trucks = o.trucks
          /\ Len(c.routes) = Len(o.routes)
          /\ \A i \in 1..o.trucks :
               /\ c.routes[i].id = o.routes[i].id
               /\ c.routes[i].depot_id = o.routes[i].depot_id
               /\ c.routes[i].len = o.routes[i].len
               /\ c.routes[i].load = o.routes[i].load
               /\ c.routes[i].workers = o.routes[i].workers
               /\ ids(c.routes[i].nodes) = ids(o.routes[i].nodes)
          /\ ids(c.unrouted) = ids(o.unrouted)
          /\ c.cost_cache = o.cost_cache
          /\ calc_costs(c).cost_cache = calc_costs(o).cost_cache
          /\ c = clone_solution(o)
          /\ view(loc.heap, loc.sol) = o
  /\ loc.live = {"sol", "clone"} =>
       objects(loc.heap, loc.sol) \cap objects(loc.heap, loc.clone) = {}
  /\ \A t \in loc.live :
       /\ objects(loc.heap, pointer(t)) \cap loc.heap.freed = {}
       /\ (loc.clone # NULL /\ hist.unit.op # "clone" /\ hist.unit.on # t) =>
            hist.unit.other = <<view(loc.heap, pointer(t))>>

\* a move through the clone that emptied and removed a route, with the
\* original of several routes still in use
C15_Witness ==
  /\ loc.live = {"sol", "clone"}
  /\ hist.unit.op = "move" /\ hist.unit.on = "clone"
  /\ loc.heap.solution[loc.clone].trucks < hist.unit.before.trucks
  /\ loc.heap.solution[loc.sol].trucks > 1
  /\ loc.heap.solution[loc.sol].unrouted # NULL

\* C16: after reset_solution the solution has trucks = 0, no route in its
\* route array, num_unrouted = n - 1 and an unrouted list that holds every
\* customer once, linked consistently in both directions
C16_ResetState ==
  hist.unit.op = "reset" =>
    LET h == loc.heap
        s == h.solution[pointer(hist.unit.on)]
        c == chain(h, s.unrouted, MaxChain)
    IN /\ s.trucks = 0
       /\ \A i \in DOMAIN s.routes : s.routes[i] = NULL
       /\ s.num_unrouted = inst.num_nodes - 1
       /\ Len(c) = inst.num_nodes - 1
       /\ \A k \in 1..(inst.num_nodes - 1) :
            Cardinality({i \in 1..Len(c) : h.node[c[i]].id = k}) = 1
       /\ h.node[c[1]].prev = NULL
       /\ h.node[c[Len(c)]].next = NULL
       /\ \A i \in 1..(Len(c) - 1) : h.node[c[i + 1]].prev = c[i]
       /\ \A i \in 1..Len(c) : <<"node", c[i]>> \notin h.freed
       /\ view(h, pointer(hist.unit.on)) = reset_solution(hist.unit.before)

\* the reset of a partially constructed solution: two routes and a
\* customer still unrouted
C16_Witness ==
  /\ hist.unit.op = "reset"
  /\ hist.unit.before.trucks = 2
  /\ hist.unit.before.num_unrouted = 1
  /\ loc.heap.solution[pointer(hist.unit.on)].unrouted # NULL

(***************************************************************************)
(* Pheromone bound                                                         *)
(***************************************************************************)
\* the updates of the pheromone matrix made so far: one per batch of ants
updates == pb.num_solutions \div cfg.ants

route_before == hist.unit.before.routes[hist.unit.on]
route_after == sol.routes[hist.unit.on]

\* C17: a second call of reduce_service_workers on a route immediately
\* after a first call returns 0 and leaves the route's worker count, aest
\* and alst unchanged
C17_SecondReduce ==
  (hist.unit.op = "reduce" /\ hist.unit.prev = <<"reduce", hist.unit.on>>) =>
    /\ ~ hist.unit.reduced
    /\ route_after.workers = route_before.workers
    /\ Len(route_after.nodes) = Len(route_before.nodes)
    /\ \A p \in 1..Len(route_after.nodes) :
         /\ route_after.nodes[p].id = route_before.nodes[p].id
         /\ route_after.nodes[p].aest = route_before.nodes[p].aest
         /\ route_after.nodes[p].alst = route_before.nodes[p].alst

\* the second call found a route with two customers that the first call
\* had left with more than one worker, and tested one worker less
C17_Witness ==
  /\ hist.unit.op = "reduce"
  /\ hist.unit.prev = <<"reduce", hist.unit.on>>
  /\ route_after.workers > 1
  /\ route_after.workers < cfg.max_workers
  /\ route_after.len > ONE_CUSTOMER

\* C19: new_route(sol, seed, w), called with a seed already removed from
\* the unrouted list, appends a route depot, seed, depot with len = 3,
\* load = demand(seed) and workers = w, increments trucks by one, and gives
\* the route id = the previous trucks value and depot_id = n + id
C19_NewRoute ==
  hist.unit.op = "new_route" =>
    /\ sol.trucks = hist.unit.before.trucks + 1
    /\ Len(sol.routes) = sol.trucks
    /\ SubSeq(sol.routes, 1, hist.unit.before.trucks) = hist.unit.before.routes
    /\ ids(sol.routes[sol.trucks].nodes) = <<DEPOT, hist.unit.tried[1].id, DEPOT>>
    /\ sol.routes[sol.trucks].len = 3
    /\ sol.routes[sol.trucks].load = inst.demand[hist.unit.tried[1].id]
    /\ sol.routes[sol.trucks].workers = cfg.max_workers
    /\ sol.routes[sol.trucks].id = hist.unit.before.trucks
    /\ sol.routes[sol.trucks].depot_id = inst.num_nodes + sol.routes[sol.trucks].id
    /\ \A k \in 1..Len(sol.unrouted) : sol.unrouted[k].id # hist.unit.tried[1].id
    /\ sol.num_unrouted = hist.unit.before.num_unrouted - 1

\* a second route opened for a seed that was not the head of the unrouted
\* list
C19_Witness ==
  /\ hist.unit.op = "new_route"
  /\ hist.unit.before.trucks = 1
  /\ hist.unit.before.num_unrouted = 2
  /\ hist.unit.before.unrouted[2].id = hist.unit.tried[1].id
  /\ sol.routes[sol.trucks].id = 1
  /\ sol.num_unrouted = 1

customers == 1..(inst.num_nodes - 1)

\* the id of the route of s that serves customer k (-1: k is unrouted)
route_id_of(s, k) ==
  IF served(s, k) = {} THEN 0 - 1
  ELSE s.routes[(CHOOSE v \in served(s, k) : TRUE)[1]].id

\* the customers that are served by another route in q than in p
relocated(p, q) == {k \in customers : route_id_of(p, k) # route_id_of(q, k)}

\* the steps of the local search logged so far
ls_steps == {hist.ls[i] : i \in DOMAIN hist.ls} \cup {hist.steps[i] : i \in DOMAIN hist.steps}

\* C21: brute_reduce_trucks commits relocations only for a route all of
\* whose customers were relocated: between the solution it held and the
\* one it commits, the customers that changed route are those of one
\* route; relocations of an attempt that failed part-way are not committed
C21_CommitsWholeRoutes ==
  \A e \in ls_steps :
    e.op = "brute" =>
      \E i \in 1..e.from.trucks :
        relocated(e.from, e.s) = Range(ids(interior(e.from.routes[i])))

(***************************************************************************)
(* Pheromone reinforcement                                                 *)
(***************************************************************************)
\* the cells of the edges of route r as calc_trail reads them: the depot of
\* the route is its virtual depot r.depot_id
trail_cells(r) ==
  {<<r.depot_id, r.nodes[2].id>>, <<r.nodes[Len(r.nodes) - 1].id, r.depot_id>>}
    \cup {<<r.nodes[p - 1].id, r.nodes[p].id>> : p \in 3..(Len(r.nodes) - 1)}

\* C22: update_pheromone reinforces, for every route r of the incumbent,
\* P[d_r][first customer], P[last customer][d_r] with d_r = r.depot_id and
\* the cell of each interior edge, each by exactly 1 - rho, also after the
\* local search has removed routes from the incumbent
C22_ReinforcesOwnDepot ==
  hist.unit.op = "update_pheromone" =>
    \A i, j \in 1..(2 * inst.num_nodes - 2) :
      pb.pheromone[i][j]
        = max(hist.unit.before[i][j] \div 2, cfg.min_pheromone)
            + (IF \E r \in 1..hist.unit.sol.trucks :
                     <<i, j>> \in trail_cells(hist.unit.sol.routes[r])
               THEN PScale \div 2 ELSE 0)

(***************************************************************************)
(* Parallel construction                                                   *)
(***************************************************************************)
\* C23 as stated: parallel construction opens exactly
\* max(1, best_trucks - 1) seeded routes before it starts inserting, in
\* every problem state and also when best_trucks = 1
C23_OpensMaxOne ==
  pc = "par_fill" => sol.trucks = max(1, pb.sol.trucks - 1)

\* C23, amended: parallel construction opens best_trucks - 1 seeded routes
\* while the problem state is REDUCE_TRUCKS (none when best_trucks = 1) and
\* best_trucks routes in state REDUCE_WORKERS, each holding its seed only
\* when the insertions start
C23_OpensByState ==
  pc = "par_fill" =>
    /\ sol.trucks = IF pb.state = REDUCE_TRUCKS THEN pb.sol.trucks - 1
                    ELSE pb.sol.trucks
    /\ sol.trucks = Len(sol.routes)
    /\ sol.num_unrouted + SumSeq([i \in 1..sol.trucks |-> sol.routes[i].len - EMPTY])
         = inst.num_nodes - 1

\* the insertions start on as many routes as the incumbent has, in state
\* REDUCE_WORKERS
C23_Witness ==
  /\ pc = "par_fill"
  /\ pb.state = REDUCE_WORKERS
  /\ pb.sol.trucks >= 1
  /\ sol.trucks = pb.sol.trucks
  /\ \A i \in 1..sol.trucks : sol.routes[i].len = ONE_CUSTOMER

\* C24: when the parallel insertions end with customers unrouted, the
\* sequential Solomon-ACO routes all of them and the failed attempt is
\* counted; the attempt that brings the counter to max_failed_attempts in
\* state REDUCE_TRUCKS moves the state to REDUCE_WORKERS (and clears the
\* counter); the state never returns to REDUCE_TRUCKS and never passes
\* REDUCE_WORKERS
C24_FailedAttempts ==
  /\ [](cfg.start_heuristic = "parallel" /\ pc = "aco_ls"
          => sol.num_unrouted = 0 /\ Len(sol.unrouted) = 0)
  /\ [][(pc = "par_fill" /\ pc' = "seed" /\ Len(sol.unrouted) > 0) =>
          /\ loc'.ctor = "aco" /\ sol' = sol
          /\ IF pb.state = REDUCE_TRUCKS
                /\ pb.attempts + 1 >= cfg.max_failed_attempts
             THEN pb'.state = REDUCE_WORKERS /\ pb'.attempts = 0
             ELSE pb'.state = pb.state /\ pb'.attempts = pb.attempts + 1]_vars
  /\ [][pb.state <= pb'.state /\ pb'.state \in {REDUCE_TRUCKS, REDUCE_WORKERS}]_vars

\* the second failed attempt of a run with max_failed_attempts = 2 has moved
\* the state on and the sequential construction has routed the remainder
C24_Witness ==
  /\ cfg.start_heuristic = "parallel" /\ cfg.max_failed_attempts = 2
  /\ pc = "aco_ls"
  /\ pb.state = REDUCE_WORKERS /\ pb.attempts = 0
  /\ sol.num_unrouted = 0
  /\ sol.trucks > loc.max_trucks

(***************************************************************************)
(* Probing                                                                 *)
(***************************************************************************)
\* the routes of a solution without their scratch fields
uncached(s) ==
  [i \in DOMAIN s.routes |->
     [s.routes[i] EXCEPT !.nodes = [p \in DOMAIN s.routes[i].nodes |->
        [s.routes[i].nodes[p] EXCEPT !.aest_cache = UNSET]]]]

\* C25: a call of update_move (with its calls of can_insert, is_move_tabu
\* and move_reduces_workers) or of is_feasible_with that no perform_move
\* follows leaves the order of the nodes, len, load, workers, aest and alst
\* of every route and the tabu matrix as they were; only aest_cache changes
C25_ProbingIsPure ==
  hist.unit.op \in {"update_move", "is_feasible_with"} =>
    /\ uncached(sol) = uncached(hist.unit.before)
    /\ sol.trucks = hist.unit.before.trucks
    /\ sol.unrouted = hist.unit.before.unrouted
    /\ hist.unit.tried = <<pb.tl>>

\* update_move in state REDUCE_WORKERS found a move and wrote caches on a
\* route with more than one worker that holds two customers
C25_Witness ==
  /\ hist.unit.op = "update_move"
  /\ hist.unit.accepted
  /\ sol # hist.unit.before
  /\ \E i \in 1..sol.trucks :
       /\ sol.routes[i].workers > 1
       /\ sol.routes[i].len >= EMPTY + 2
       /\ \E p \in DOMAIN sol.routes[i].nodes :
            /\ sol.routes[i].nodes[p].aest_cache # hist.unit.before.routes[i].nodes[p].aest_cache
            /\ sol.routes[i].nodes[p].aest_cache # sol.routes[i].nodes[p].aest

(***************************************************************************)
(* The restricted candidate list                                           *)
(***************************************************************************)
\* C26: after any sequence of update_insertion_list calls since the last
\* init, the list is ordered by non-increasing attractiveness from head to
\* tail, its entries are distinct offered insertions, its size is the
\* smaller of the number of offers and max_size (unbounded for rcl_size 0),
\* and no insertion that is left out is more attractive than one it holds
C26_OrderedBoundedBest ==
  hist.unit.op \in {"init_list", "update_list"} =>
    LET l == loc.insertions.list
        offered == hist.unit.offered
        max_size == IF hist.unit.rcl_size = 0 THEN LONG_MAX ELSE hist.unit.rcl_size
    IN /\ loc.insertions.max_size = max_size
       /\ \A k \in 1..(Len(l) - 1) : l[k].attractiveness >= l[k + 1].attractiveness
       /\ \A k \in 1..Len(l) : l[k] \in Range(offered)
       /\ \A j, k \in 1..Len(l) : j # k => l[j] # l[k]
       /\ Len(l) = IF Len(offered) < max_size THEN Len(offered) ELSE max_size
       /\ \A o \in Range(offered) \ Range(l) :
            \A k \in 1..Len(l) : l[k].attractiveness >= o.attractiveness

\* a full list of two has taken a third, better insertion between its
\* entries and dropped its tail
C26_Witness ==
  /\ hist.unit.op = "update_list"
  /\ hist.unit.rcl_size = 2
  /\ Len(hist.unit.offered) = 3
  /\ hist.unit.offered[3].attractiveness > hist.unit.offered[2].attractiveness
  /\ hist.unit.offered[3].attractiveness < hist.unit.offered[1].attractiveness
  /\ loc.insertions.list = <<hist.unit.offered[1], hist.unit.offered[3]>>

(***************************************************************************)
(* Variable neighbourhood search                                           *)
(***************************************************************************)
\* C27: with runtime = 0 and max_iterations = N > 0 solve_vns ends after at
\* most N shakes: no more than N shakes are begun, and wherever
\* shake_solution draws a route, some draw distributes a node, so that the
\* call returns, also with a single route
C27_ShakeReturns ==
  (cfg.metaheuristic = "vns" /\ cfg.runtime = 0 /\ cfg.max_iterations > 0) =>
    /\ loc.rounds <= cfg.max_iterations
    /\ pc = "vns_shake" =>
          \E route_index \in 1..sol.trucks :
            distribute_nodes(sol, route_index).moved # 0

(***************************************************************************)
(* Emptied routes                                                          *)
(***************************************************************************)
\* the routes of s that hold at least one customer
holding(s) == {i \in DOMAIN s.routes : s.routes[i].len > EMPTY}

ts_applied == hist.steps[Len(hist.steps)]

\* C29: in solve_ts, after every applied move, the workers_cache and
\* dist_cache kept by subtracting the move's delta_workers and delta_dist,
\* and the cost computed from them and the live truck count, equal what
\* calc_costs computes from the routes
C29_IncrementalCost ==
  (pc = "ts_accept" /\ Len(hist.steps) > 0) =>
    /\ sol.workers_cache = calc_costs(sol).workers_cache
    /\ sol.dist_cache = calc_costs(sol).dist_cache
    /\ sol.cost_cache = calc_costs(sol).cost_cache

\* a move of two nodes has been applied
C29_Witness ==
  /\ pc = "ts_accept"
  /\ Len(hist.steps) > 0
  /\ Cardinality(relocated(ts_applied.from, ts_applied.s)) = 2
  /\ ts_applied.post[3] # ts_applied.pre[3]

(***************************************************************************)
(* The reported saturation time                                            *)
(***************************************************************************)
\* C30: once solve_cached_aco has recorded a saturation time other than 0,
\* the incumbent reported at the end of the run carries that time, also
\* when a better solution replaced the incumbent after the recording
C30_SaturationReported ==
  (cfg.metaheuristic = "cached_aco" /\ pc = "done" /\ hist.saturation_time # 0)
    => pb.sol.saturation_time = hist.saturation_time

====
